---- MODULE Spec2Model ----
(***************************************************************************)
(* Model of the DMS batch cleansing pipelines (etl/pipelines.py) and of    *)
(* the config-driven KPI calculation engine (kpi/engine.py).               *)
(*                                                                         *)
(* Text values of the payloads are sequences of one-character strings, so  *)
(* that strip(), lower(), float() and date parsing are computed and not    *)
(* assumed.  Optional scalars are tagged records: None, Num(n), Str(s).    *)
(***************************************************************************)
EXTENDS Integers, Sequences, FiniteSets, TLC

VARIABLES
    component,          \* which entry point runs: "operations", "kpi", "calc", "eval",
                        \* "batch", "resolve"
    pc,                 \* position of that entry point
    anomaly_thresholds, \* _process_*: the anomaly_thresholds argument
    staging_rows,       \* _process_*: the staging rows read so far, in read order
    staging_row,        \* _process_*: the staging row of the current loop iteration
    row_number,         \* _process_*: its row_number (read order)
    outcome,            \* _process_*: how the iteration ended ("accepted" / "rejected")
    seen_keys,          \* _process_*: seen_keys
    valid_records,      \* _process_*: valid_records
    dq_count,           \* _process_*: dq_count
    dq_issues,          \* table dq_issues (rows appended by _record_issue)
    load_calls,         \* calls of load_fact_operations / load_fact_kpi (their argument)
    kpi_metrics,        \* table kpi_metrics, as _load_metric_definitions reads it
    dim_period,         \* table dim_period (period_key = position)
    fact_operations,    \* table fact_operations
    fact_kpi,           \* table fact_kpi
    fact_kpi_calc,      \* table fact_kpi_calc
    period_keys,        \* calculate: the period_keys argument (<<>> = None)
    batch_id,           \* calculate: the batch_id argument
    period_index,       \* calculate: period_index
    results,            \* calculate: results
    n_monthly,          \* calculate: length of results after the two _calculate_for_scope calls
    rollup_step,        \* calculate: which of the four _rollup_results calls is next
    rollup_trace,       \* calculate: per rollup row, the positions in results of its group
    runs,               \* per finished calculate: batch_id and the rows of that batch
    eval_metric,        \* _evaluate_metric: the metric argument
    eval_context,       \* _evaluate_metric: the context argument
    eval_value,         \* _evaluate_metric: the value returned
    resolver_defs,      \* _evaluate_metrics: the metric_defs argument
    resolver_base,      \* _evaluate_metrics: the base_context argument
    resolver,           \* _evaluate_metrics: computed, context, progress (raised: an exception left it)
    pass_number,        \* _evaluate_metrics: which iteration of the outer loop runs
    position,           \* _evaluate_metrics: index in metric_defs of the inner loop
    evaluations,        \* _evaluate_metrics: the _evaluate_metric calls made, in order
    record_rows,        \* _calculate_for_scope: the rows appended for the record
    upload_batches,     \* table upload_batches as the open connection sees it (id = position)
    staging,            \* tables stg_operations / stg_kpi_raw: per batch id, its rows' data
    committed,          \* what the last commit made durable: upload_batches, dq_issues, loads
    run                 \* run_batch: its arguments and locals, and what it has written

pipeVars == <<anomaly_thresholds, staging_rows, staging_row, row_number, outcome, seen_keys,
              valid_records, dq_count, dq_issues, load_calls>>

calcVars == <<kpi_metrics, dim_period, fact_operations, fact_kpi, fact_kpi_calc, period_keys,
              batch_id, period_index, results, n_monthly, rollup_step, rollup_trace, runs>>

resolveVars == <<resolver_defs, resolver_base, resolver, pass_number, position, evaluations,
                 record_rows>>

evalVars == <<eval_metric, eval_context, eval_value, resolveVars>>

batchVars == <<upload_batches, staging, committed, run>>

vars == <<component, pc, pipeVars, calcVars, evalVars, batchVars>>

-----------------------------------------------------------------------------
(* Bounds of the model *)

\* staging rows scanned by one cleansing run
MaxRows == 2

\* calls of calculate in one behaviour
MaxRuns == 2

\* batch ids calculate is called with
MaxBatch == 2

-----------------------------------------------------------------------------
(* Scalars and text *)

None == [t |-> "none"]
Num(n) == [t |-> "num", v |-> n]
Str(s) == [t |-> "str", s |-> s]

IsNone(x) == x.t = "none"

Abs(n) == IF n < 0 THEN -n ELSE n

DigitChars == <<"0", "1", "2", "3", "4", "5", "6", "7", "8", "9">>

IsDigit(c) == \E i \in 1..10 : DigitChars[i] = c

DigitVal(c) == (CHOOSE i \in 1..10 : DigitChars[i] = c) - 1

UpperChars == <<"A", "B", "C", "D", "E", "F", "G", "H", "I", "J", "K", "L", "M",
                "N", "O", "P", "Q", "R", "S", "T", "U", "V", "W", "X", "Y", "Z">>

LowerChars == <<"a", "b", "c", "d", "e", "f", "g", "h", "i", "j", "k", "l", "m",
                "n", "o", "p", "q", "r", "s", "t", "u", "v", "w", "x", "y", "z">>

\* str.lower() on one character
LowerChar(c) ==
    IF \E i \in 1..26 : UpperChars[i] = c
    THEN LowerChars[CHOOSE i \in 1..26 : UpperChars[i] = c]
    ELSE c

\* str.lower()
Lower(s) == [i \in 1..Len(s) |-> LowerChar(s[i])]

IsSpace(c) == c = " "

\* str.strip()
Strip(s) ==
    LET idx == {i \in 1..Len(s) : ~IsSpace(s[i])}
    IN  IF idx = {} THEN <<>>
        ELSE LET lo == CHOOSE i \in idx : \A j \in idx : i <= j
                 hi == CHOOSE i \in idx : \A j \in idx : j <= i
             IN  SubSeq(s, lo, hi)

\* value of a sequence of decimal digits
RECURSIVE DigitsVal(_)
DigitsVal(s) ==
    IF s = <<>> THEN 0 ELSE 10 * DigitsVal(SubSeq(s, 1, Len(s) - 1)) + DigitVal(s[Len(s)])

AllDigits(s) == s # <<>> /\ \A i \in 1..Len(s) : IsDigit(s[i])

\* decimal digits of a natural number
RECURSIVE NatDigits(_)
NatDigits(n) ==
    IF n < 10 THEN <<DigitChars[n + 1]>> ELSE Append(NatDigits(n \div 10), DigitChars[(n % 10) + 1])

\* str(value) for the scalars a payload holds
PyStr(x) ==
    CASE x.t = "str" -> x.s
      [] x.t = "num" -> IF x.v < 0 THEN <<"-">> \o NatDigits(-x.v) ELSE NatDigits(x.v)
      [] OTHER -> <<"N", "o", "n", "e">>

\* float(value): [ok, v]; ok = FALSE stands for TypeError / ValueError.
\* Text is accepted when, stripped, it is an optionally signed run of digits.
PyFloat(x) ==
    CASE x.t = "num" -> [ok |-> TRUE, v |-> x.v]
      [] x.t = "str" ->
            LET s == Strip(x.s)
                neg == s # <<>> /\ s[1] = "-"
                pos == s # <<>> /\ s[1] = "+"
                body == IF neg \/ pos THEN Tail(s) ELSE s
            IN  IF AllDigits(body)
                THEN [ok |-> TRUE, v |-> IF neg THEN -DigitsVal(body) ELSE DigitsVal(body)]
                ELSE [ok |-> FALSE, v |-> 0]
      [] OTHER -> [ok |-> FALSE, v |-> 0]

IsLeap(y) == (y % 4 = 0 /\ y % 100 # 0) \/ y % 400 = 0

DaysInMonth(y, m) ==
    IF m = 2 THEN (IF IsLeap(y) THEN 29 ELSE 28)
    ELSE IF m \in {4, 6, 9, 11} THEN 30 ELSE 31

\* _parse_period: datetime.fromisoformat on a YYYY-MM-DD text, then (year, month);
\* ok = FALSE stands for the ValueError.
ParsePeriod(value) ==
    LET bad == [ok |-> FALSE, year |-> 0, month |-> 0]
    IN  IF value = <<>> THEN bad
        ELSE IF Len(value) # 10 \/ value[5] # "-" \/ value[8] # "-" THEN bad
        ELSE IF ~(AllDigits(SubSeq(value, 1, 4)) /\ AllDigits(SubSeq(value, 6, 7))
                  /\ AllDigits(SubSeq(value, 9, 10))) THEN bad
        ELSE LET y == DigitsVal(SubSeq(value, 1, 4))
                 m == DigitsVal(SubSeq(value, 6, 7))
                 d == DigitsVal(SubSeq(value, 9, 10))
             IN  IF y >= 1 /\ m \in 1..12 /\ d >= 1 /\ d <= DaysInMonth(y, m)
                 THEN [ok |-> TRUE, year |-> y, month |-> m]
                 ELSE bad

-----------------------------------------------------------------------------
(* Payload keys and metric names (text) *)

K_factory_code ==
    <<"f", "a", "c", "t", "o", "r", "y", "_", "c", "o", "d", "e">>

K_date ==
    <<"d", "a", "t", "e">>

K_employee_id ==
    <<"e", "m", "p", "l", "o", "y", "e", "e", "_", "i", "d">>

K_indicator ==
    <<"i", "n", "d", "i", "c", "a", "t", "o", "r">>

K_value ==
    <<"v", "a", "l", "u", "e">>

K_target ==
    <<"t", "a", "r", "g", "e", "t">>

K_revenue ==
    <<"r", "e", "v", "e", "n", "u", "e">>

K_cost ==
    <<"c", "o", "s", "t">>

K_output_qty ==
    <<"o", "u", "t", "p", "u", "t", "_", "q", "t", "y">>

K_downtime_hours ==
    <<"d", "o", "w", "n", "t", "i", "m", "e", "_", "h", "o", "u", "r", "s">>

\* dict.get(key): None when the key is absent
Get(obj, k) == IF k \in DOMAIN obj THEN obj[k] ELSE None

\* Python truthiness of a payload scalar
Truthy(x) ==
    CASE x.t = "str" -> x.s # <<>>
      [] x.t = "num" -> x.v # 0
      [] OTHER -> FALSE

-----------------------------------------------------------------------------
(* Data-quality recorder *)

\* one row of dq_issues; subject is the name the message text interpolates,
\* context the field / metric of the context object (<<>> when there is none)
Issue(rn, type, subject, message, context) ==
    [row_number |-> rn, issue_type |-> type, subject |-> subject,
     issue_message |-> message, context |-> context]

\* _validate_required_fields: one missing_value issue per missing field, in order
\* mutant of ValidateRequiredFields: the loop is left at the first missing field
RECURSIVE ValidateRequiredFields_FirstOnly(_, _, _)
ValidateRequiredFields_FirstOnly(row, required, rn) ==
    IF required = <<>> THEN <<>>
    ELSE LET field == Head(required)
             value == Get(row, field)
         IN  IF IsNone(value) \/ Strip(PyStr(value)) = <<>>
             THEN <<Issue(rn, "missing_value", field, "is required", field)>>
             ELSE ValidateRequiredFields_FirstOnly(row, Tail(required), rn)

RECURSIVE ValidateRequiredFields(_, _, _)
ValidateRequiredFields(row, required, rn) ==
    IF required = <<>> THEN <<>>
    ELSE LET field == Head(required)
             value == Get(row, field)
             rest == ValidateRequiredFields(row, Tail(required), rn)
         IN  IF IsNone(value) \/ Strip(PyStr(value)) = <<>>
             THEN <<Issue(rn, "missing_value", field, "is required", field)>> \o rest
             ELSE rest

-----------------------------------------------------------------------------
(* Dimension resolver (external collaborator, warehouse_schema) *)

\* alias tables factory_code_alias / employee_id_alias
FactoryAlias ==
    (<<"f", "1">> :> <<"F", "1">>) @@ (<<"z", "z">> :> <<>>)

EmployeeAlias ==
    (<<"e", "1">> :> <<"E", "1">>) @@ (<<"z", "z">> :> <<>>)

\* normalize_factory_code / normalize_employee_id: alias lookup, else the
\* trimmed raw text; an empty result is "no code"
NormalizeCode(raw, alias_lookup) ==
    LET text == Strip(PyStr(raw))
    IN  IF IsNone(raw) THEN <<>>
        ELSE IF text \in DOMAIN alias_lookup THEN alias_lookup[text]
        ELSE text

-----------------------------------------------------------------------------
(* The parts of the state an entry point does not touch *)

PipeIdle ==
    /\ anomaly_thresholds = <<>>
    /\ staging_rows = <<>>
    /\ staging_row = [row_number |-> 0, data |-> [json_ok |-> FALSE, obj |-> <<>>]]
    /\ row_number = 0
    /\ outcome = "none"
    /\ seen_keys = {}
    /\ valid_records = <<>>
    /\ dq_count = 0
    /\ dq_issues = <<>>
    /\ load_calls = <<>>

CalcIdle ==
    /\ kpi_metrics = <<>>
    /\ dim_period = <<>>
    /\ fact_operations = <<>>
    /\ fact_kpi = <<>>
    /\ fact_kpi_calc = <<>>
    /\ period_keys = <<>>
    /\ batch_id = 0
    /\ period_index = <<>>
    /\ results = <<>>
    /\ n_monthly = 0
    /\ rollup_step = 0
    /\ rollup_trace = <<>>
    /\ runs = <<>>

\* _evaluate_metrics has not been called
ResolveIdle ==
    /\ resolver_defs = <<>>
    /\ resolver_base = <<>>
    /\ resolver = [computed |-> <<>>, context |-> <<>>, progress |-> FALSE, raised |-> FALSE]
    /\ pass_number = 0
    /\ position = 0
    /\ evaluations = <<>>
    /\ record_rows = <<>>

EvalCallIdle ==
    /\ eval_metric = None
    /\ eval_context = <<>>
    /\ eval_value = None

EvalIdle ==
    /\ EvalCallIdle
    /\ ResolveIdle

\* run_batch has not been called.  call counts the calls; batch_id and dataset
\* are the argument and the dataset read for it; exc is the exception caught by
\* the except clause, raised the exception that left run_batch, result the dict
\* returned; updates lists the UPDATE statements executed on upload_batches;
\* issues_before and loads_before are the number of dq_issues rows and of loader
\* calls when the call began.
NoRun ==
    [call |-> 0, batch_id |-> 0, dataset |-> <<>>, exc |-> None, raised |-> None,
     result |-> None, updates |-> <<>>, issues_before |-> 0, loads_before |-> 0]

BatchIdle ==
    /\ upload_batches = <<>>
    /\ staging = <<>>
    /\ committed = [upload_batches |-> <<>>, dq_issues |-> <<>>, load_calls |-> <<>>]
    /\ run = NoRun

-----------------------------------------------------------------------------
(* Row cleanser: operations pipeline (_process_operations) *)

DEFAULT_ANOMALY_THRESHOLD == 1000000

\* the anomaly threshold of one metric: its entry of the map, else the default
Threshold(thresholds, metric) ==
    IF metric \in DOMAIN thresholds THEN thresholds[metric] ELSE DEFAULT_ANOMALY_THRESHOLD

\* mutant of ExceedsThreshold: the bound itself counts as an anomaly
ExceedsThreshold_Inclusive(value, threshold) == Abs(value) >= threshold

\* abs(value) > threshold
ExceedsThreshold(value, threshold) == Abs(value) > threshold

\* key = (factory_code, year, month)
OpsKey(factory_code, year, month) == <<factory_code, year, month>>

\* mutant of IsDuplicate: no key is ever found in seen_keys
IsDuplicate_Never(key, seen) == FALSE

\* key in seen_keys
IsDuplicate(key, seen) == key \in seen

\* mutant of AddKey: the key is never remembered
AddKey_Forgotten(seen, key) == seen

\* seen_keys.add(key)
AddKey(seen, key) == seen \cup {key}

OpsFixedFields == <<K_revenue, K_cost, K_output_qty, K_downtime_hours>>

\* mutant of ExtractFixedMetrics: the loop is left at the first field that
\* float() refuses
RECURSIVE ExtractFixedMetrics_StopAtFirst(_, _, _)
ExtractFixedMetrics_StopAtFirst(raw_data, fields, rn) ==
    IF fields = <<>> THEN [metrics |-> <<>>, issues |-> <<>>]
    ELSE LET field == Head(fields)
             rest == ExtractFixedMetrics_StopAtFirst(raw_data, Tail(fields), rn)
             f == PyFloat(Get(raw_data, field))
         IN  IF IsNone(Get(raw_data, field)) THEN rest
             ELSE IF f.ok
             THEN [metrics |-> <<[name |-> field, value |-> f.v]>> \o rest.metrics,
                   issues |-> rest.issues]
             ELSE [metrics |-> <<>>,
                   issues |-> <<Issue(rn, "invalid_value", field, "must be numeric", field)>>]

\* the loop over the fixed metric fields: the metrics dict (in insertion order)
\* and one invalid_value issue per present field that float() refuses
RECURSIVE ExtractFixedMetrics(_, _, _)
ExtractFixedMetrics(raw_data, fields, rn) ==
    IF fields = <<>> THEN [metrics |-> <<>>, issues |-> <<>>]
    ELSE LET field == Head(fields)
             rest == ExtractFixedMetrics(raw_data, Tail(fields), rn)
             f == PyFloat(Get(raw_data, field))
         IN  IF IsNone(Get(raw_data, field)) THEN rest
             ELSE IF f.ok
             THEN [metrics |-> <<[name |-> field, value |-> f.v]>> \o rest.metrics,
                   issues |-> rest.issues]
             ELSE [metrics |-> rest.metrics,
                   issues |-> <<Issue(rn, "invalid_value", field, "must be numeric", field)>>
                              \o rest.issues]

\* metrics.get(name)
MetricGet(metrics, name) ==
    IF \E i \in 1..Len(metrics) : metrics[i].name = name
    THEN Num(metrics[CHOOSE i \in 1..Len(metrics) : metrics[i].name = name].value)
    ELSE None

\* the anomaly loop: one anomaly issue per metric beyond its threshold
RECURSIVE AnomalyIssues(_, _, _)
AnomalyIssues(metrics, thresholds, rn) ==
    IF metrics = <<>> THEN <<>>
    ELSE LET m == Head(metrics)
             rest == AnomalyIssues(Tail(metrics), thresholds, rn)
         IN  IF ExceedsThreshold(m.value, Threshold(thresholds, m.name))
             THEN <<Issue(rn, "anomaly", m.name, "exceeds threshold", m.name)>> \o rest
             ELSE rest

\* the clean record appended to valid_records
OpsRecord(factory_code, year, month, metrics) ==
    [factory_code |-> factory_code, year |-> year, month |-> month,
     revenue |-> MetricGet(metrics, K_revenue),
     cost |-> MetricGet(metrics, K_cost),
     output_qty |-> MetricGet(metrics, K_output_qty),
     downtime_hours |-> MetricGet(metrics, K_downtime_hours)]

\* a rejected iteration (continue): issues recorded, dq_count increment, seen_keys
Rejected(issues, count, seen) ==
    [accepted |-> FALSE, issues |-> issues, count |-> count, seen |-> seen, record |-> None]

\* One iteration of the loop of _process_operations over a staging row.
ProcessOperationsRow(data, rn, seen, thresholds) ==
    IF ~data.json_ok
    THEN Rejected(<<Issue(rn, "invalid_json", <<>>, "staging row contains invalid JSON", <<>>)>>,
                  1, seen)
    ELSE
    LET raw_data == data.obj
        missing == ValidateRequiredFields(raw_data, <<K_factory_code, K_date>>, rn)
        period == ParsePeriod(PyStr(Get(raw_data, K_date)))
        factory_code == NormalizeCode(Get(raw_data, K_factory_code), FactoryAlias)
        key == OpsKey(factory_code, period.year, period.month)
        seen2 == AddKey(seen, key)
        fixed == ExtractFixedMetrics(raw_data, OpsFixedFields, rn)
        use_indicator == /\ fixed.metrics = <<>>
                         /\ Truthy(Get(raw_data, K_indicator))
                         /\ ~IsNone(Get(raw_data, K_value))
        indicator == Lower(Strip(PyStr(Get(raw_data, K_indicator))))
        fvalue == PyFloat(Get(raw_data, K_value))
        metrics == IF use_indicator /\ fvalue.ok
                   THEN <<[name |-> indicator, value |-> fvalue.v]>>
                   ELSE fixed.metrics
        anomalies == AnomalyIssues(metrics, thresholds, rn)
    IN  IF missing # <<>> THEN Rejected(missing, Len(missing), seen)
        ELSE IF ~period.ok
        THEN Rejected(<<Issue(rn, "invalid_date", <<>>, "invalid date", K_date)>>, 1, seen)
        ELSE IF factory_code = <<>>
        THEN Rejected(<<Issue(rn, "missing_value", K_factory_code, "is required", <<>>)>>, 1, seen)
        ELSE IF IsDuplicate(key, seen)
        THEN Rejected(<<Issue(rn, "duplicate_key", <<>>,
                              "duplicate factory+period combination", K_factory_code)>>, 1, seen)
        ELSE IF use_indicator /\ ~fvalue.ok
        THEN Rejected(fixed.issues \o <<Issue(rn, "invalid_value", K_value, "must be numeric", <<>>)>>,
                      Len(fixed.issues) + 1, seen2)
        ELSE IF metrics = <<>>
        THEN Rejected(fixed.issues \o <<Issue(rn, "missing_value", <<>>, "no metrics to load", <<>>)>>,
                      Len(fixed.issues) + 1, seen2)
        ELSE IF anomalies # <<>>
        THEN Rejected(fixed.issues \o anomalies, Len(fixed.issues) + Len(anomalies), seen2)
        ELSE [accepted |-> TRUE, issues |-> fixed.issues, count |-> Len(fixed.issues),
              seen |-> seen2,
              record |-> OpsRecord(factory_code, period.year, period.month, metrics)]

-----------------------------------------------------------------------------
(* Staging rows offered to the operations pipeline *)

T_F1 == <<"F", "1">>
T_f1 == <<"f", "1">>
T_F2 == <<"F", "2">>
T_zz == <<"z", "z">>
T_abc == <<"a", "b", "c">>
T_Scrap == <<"S", "c", "r", "a", "p">>
T_Revenue == <<"R", "e", "v", "e", "n", "u", "e">>
T_Jan05 == <<"2", "0", "2", "4", "-", "0", "1", "-", "0", "5">>
T_Jan20 == <<"2", "0", "2", "4", "-", "0", "1", "-", "2", "0">>
T_Feb01 == <<"2", "0", "2", "4", "-", "0", "2", "-", "0", "1">>
T_Slash == <<"2", "0", "2", "4", "/", "0", "1", "/", "0", "5">>
T_Month13 == <<"2", "0", "2", "4", "-", "1", "3", "-", "0", "1">>
T_Num100 == <<" ", "1", "0", "0">>

Malformed == [json_ok |-> FALSE, obj |-> <<>>]

Obj(o) == [json_ok |-> TRUE, obj |-> o]

\* the metric part of an operations payload
OpsMetricParts ==
    { <<>>,
      K_revenue :> Num(100),
      K_revenue :> Str(T_Num100),
      K_revenue :> Str(T_abc),
      K_revenue :> Num(2000000),
      K_revenue :> Num(1000000),
      K_revenue :> Num(-1000001),
      (K_revenue :> Num(100)) @@ (K_cost :> Num(3000000)),
      (K_revenue :> Num(2000000)) @@ (K_downtime_hours :> Num(-3000000)),
      (K_revenue :> Str(T_abc)) @@ (K_cost :> Num(600)),
      (K_revenue :> Str(T_abc)) @@ (K_output_qty :> Str(<<>>)),
      (K_revenue :> Str(T_abc)) @@ (K_indicator :> Str(T_Scrap)) @@ (K_value :> Num(7)),
      (K_indicator :> Str(T_Scrap)) @@ (K_value :> Num(7)),
      (K_indicator :> Str(T_Revenue)) @@ (K_value :> Num(5000000)),
      (K_indicator :> Str(T_Scrap)) @@ (K_value :> Str(T_abc)),
      K_cost :> Num(600) }

OpsPayloads ==
    {Malformed, Obj(<<>>)}
    \cup { Obj((K_factory_code :> fc) @@ (K_date :> Str(T_Jan05)) @@ (K_revenue :> Num(100))) :
             fc \in {None, Str(<<" ">>), Str(T_F1), Str(T_f1), Str(T_zz), Str(T_F2)} }
    \cup { Obj((K_factory_code :> Str(T_F1)) @@ (K_date :> d) @@ (K_revenue :> Num(100))) :
             d \in {None, Str(T_Jan20), Str(T_Slash), Str(T_Month13)} }
    \cup { Obj((K_factory_code :> Str(T_F1)) @@ (K_date :> Str(T_Feb01)) @@ m) :
             m \in OpsMetricParts }

\* the anomaly_thresholds argument: absent, or a per-metric map
ThresholdMaps == { <<>>, K_cost :> 500 }

-----------------------------------------------------------------------------
(* Actions of the operations pipeline *)

InitOps ==
    /\ component = "operations"
    /\ pc = "scan"
    /\ anomaly_thresholds \in ThresholdMaps
    /\ staging_rows = <<>>
    /\ staging_row = [row_number |-> 0, data |-> Malformed]
    /\ row_number = 0
    /\ outcome = "none"
    /\ seen_keys = {}
    /\ valid_records = <<>>
    /\ dq_count = 0
    /\ dq_issues = <<>>
    /\ load_calls = <<>>
    /\ CalcIdle
    /\ EvalIdle
    /\ BatchIdle

\* one iteration of "for staging_row in staging_rows"
OpsScanRow ==
    /\ component = "operations"
    /\ pc = "scan"
    /\ row_number < MaxRows
    /\ \E data \in OpsPayloads :
         LET rn == row_number + 1
             r == ProcessOperationsRow(data, rn, seen_keys, anomaly_thresholds)
         IN  /\ staging_rows' = Append(staging_rows, [row_number |-> rn, data |-> data])
             /\ staging_row' = [row_number |-> rn, data |-> data]
             /\ row_number' = rn
             /\ outcome' = IF r.accepted THEN "accepted" ELSE "rejected"
             /\ seen_keys' = r.seen
             /\ valid_records' = IF r.accepted THEN Append(valid_records, r.record)
                                 ELSE valid_records
             /\ dq_count' = dq_count + r.count
             /\ dq_issues' = dq_issues \o r.issues
    /\ UNCHANGED <<component, pc, anomaly_thresholds, load_calls, calcVars, evalVars,
                   batchVars>>

\* mutant of OpsFinish: the loader is called also with no record
OpsFinish_AlwaysLoads ==
    /\ component = "operations"
    /\ pc = "scan"
    /\ pc' = "done"
    /\ load_calls' = Append(load_calls, valid_records)
    /\ UNCHANGED <<component, anomaly_thresholds, staging_rows, staging_row, row_number,
                   outcome, seen_keys, valid_records, dq_count, dq_issues, calcVars, evalVars,
                   batchVars>>

\* after the loop: load_fact_operations(valid_records) when there are any, return
OpsFinish ==
    /\ component = "operations"
    /\ pc = "scan"
    /\ pc' = "done"
    /\ load_calls' = IF valid_records # <<>> THEN Append(load_calls, valid_records)
                     ELSE load_calls
    /\ UNCHANGED <<component, anomaly_thresholds, staging_rows, staging_row, row_number,
                   outcome, seen_keys, valid_records, dq_count, dq_issues, calcVars, evalVars,
                   batchVars>>

NextOps == OpsScanRow \/ OpsFinish

SpecOps == InitOps /\ [][NextOps]_vars

-----------------------------------------------------------------------------
(* Row cleanser: KPI pipeline (_process_kpi) *)

\* mutant of KpiKey: the metric code is compared case-sensitively
KpiKey_CaseSensitive(employee_id, year, month, metric_code) ==
    <<employee_id, year, month, metric_code>>

\* key = (employee_id, year, month, metric_code.lower())
KpiKey(employee_id, year, month, metric_code) == <<employee_id, year, month, Lower(metric_code)>>

\* {str(k).lower(): v for k, v in anomaly_thresholds.items()}
LowerKeys(thresholds) ==
    [k \in {Lower(n) : n \in DOMAIN thresholds} |->
        thresholds[CHOOSE n \in DOMAIN thresholds : Lower(n) = k]]

\* the clean record appended to valid_records
KpiRecord(employee_id, factory_code, metric_code, value, target, year, month) ==
    [employee_id |-> employee_id, factory_code |-> factory_code, metric_code |-> metric_code,
     value |-> value, target |-> target, year |-> year, month |-> month]

\* One iteration of the loop of _process_kpi over a staging row.
ProcessKpiRow(data, rn, seen, thresholds) ==
    IF ~data.json_ok
    THEN Rejected(<<Issue(rn, "invalid_json", <<>>, "staging row contains invalid JSON", <<>>)>>,
                  1, seen)
    ELSE
    LET raw_data == data.obj
        missing == ValidateRequiredFields(raw_data,
                       <<K_employee_id, K_indicator, K_value, K_date>>, rn)
        period == ParsePeriod(PyStr(Get(raw_data, K_date)))
        metric_code == Strip(PyStr(Get(raw_data, K_indicator)))
        employee_id == NormalizeCode(Get(raw_data, K_employee_id), EmployeeAlias)
        key == KpiKey(employee_id, period.year, period.month, metric_code)
        seen2 == AddKey(seen, key)
        fvalue == PyFloat(Get(raw_data, K_value))
        threshold == Threshold(LowerKeys(thresholds), Lower(metric_code))
        factory_code == IF IsNone(Get(raw_data, K_factory_code)) THEN None
                        ELSE Str(NormalizeCode(Get(raw_data, K_factory_code), FactoryAlias))
    IN  IF missing # <<>> THEN Rejected(missing, Len(missing), seen)
        ELSE IF ~period.ok
        THEN Rejected(<<Issue(rn, "invalid_date", <<>>, "invalid date", K_date)>>, 1, seen)
        ELSE IF employee_id = <<>>
        THEN Rejected(<<Issue(rn, "missing_value", K_employee_id, "is required", <<>>)>>, 1, seen)
        ELSE IF IsDuplicate(key, seen)
        THEN Rejected(<<Issue(rn, "duplicate_key", <<>>,
                              "duplicate employee+period+metric combination", metric_code)>>,
                      1, seen)
        ELSE IF ~fvalue.ok
        THEN Rejected(<<Issue(rn, "invalid_value", K_value, "must be numeric", <<>>)>>, 1, seen2)
        ELSE IF ExceedsThreshold(fvalue.v, threshold)
        THEN Rejected(<<Issue(rn, "anomaly", metric_code, "exceeds threshold", metric_code)>>,
                      1, seen2)
        ELSE [accepted |-> TRUE, issues |-> <<>>, count |-> 0, seen |-> seen2,
              record |-> KpiRecord(employee_id, factory_code, metric_code, fvalue.v,
                                   Get(raw_data, K_target), period.year, period.month)]

-----------------------------------------------------------------------------
(* Staging rows offered to the KPI pipeline *)

T_E1 == <<"E", "1">>
T_e1 == <<"e", "1">>
T_E2 == <<"E", "2">>
T_Sales == <<"S", "a", "l", "e", "s">>
T_sales == <<"s", "a", "l", "e", "s">>
T_SALES_sp == <<" ", "S", "A", "L", "E", "S", " ">>
T_Cost == <<"C", "o", "s", "t">>

KpiBase ==
    (K_employee_id :> Str(T_E1)) @@ (K_indicator :> Str(T_Sales))
    @@ (K_value :> Num(10)) @@ (K_date :> Str(T_Jan05))

\* KpiBase with some of its fields replaced or removed
KpiPayloads ==
    {Malformed, Obj(<<>>), Obj(KpiBase),
     Obj((K_employee_id :> Str(T_E1)) @@ (K_value :> Str(<<" ">>)))}
    \cup { Obj((K_employee_id :> e) @@ KpiBase) :
             e \in {None, Str(T_e1), Str(T_zz), Str(T_E2)} }
    \cup { Obj((K_indicator :> i) @@ KpiBase) :
             i \in {Str(T_sales), Str(T_SALES_sp), Str(T_Cost)} }
    \cup { Obj((K_date :> d) @@ KpiBase) :
             d \in {Str(T_Jan20), Str(T_Feb01), Str(T_Slash)} }
    \cup { Obj((K_value :> v) @@ KpiBase) :
             v \in {Str(T_abc), Str(T_Num100), Num(2000000), Num(1000000),
                    Num(-1000001), Num(600)} }
    \cup { Obj((K_indicator :> Str(T_sales)) @@ (K_value :> v) @@ KpiBase) :
             v \in {Str(T_abc), Num(2000000), Num(600)} }
    \cup { Obj((K_factory_code :> Str(T_f1)) @@ (K_target :> Num(50)) @@ KpiBase) }

KpiThresholdMaps == { <<>>, T_Sales :> 500 }

-----------------------------------------------------------------------------
(* Actions of the KPI pipeline *)

InitKpi ==
    /\ component = "kpi"
    /\ pc = "scan"
    /\ anomaly_thresholds \in KpiThresholdMaps
    /\ staging_rows = <<>>
    /\ staging_row = [row_number |-> 0, data |-> Malformed]
    /\ row_number = 0
    /\ outcome = "none"
    /\ seen_keys = {}
    /\ valid_records = <<>>
    /\ dq_count = 0
    /\ dq_issues = <<>>
    /\ load_calls = <<>>
    /\ CalcIdle
    /\ EvalIdle
    /\ BatchIdle

\* one iteration of "for staging_row in staging_rows"
KpiScanRow ==
    /\ component = "kpi"
    /\ pc = "scan"
    /\ row_number < MaxRows
    /\ \E data \in KpiPayloads :
         LET rn == row_number + 1
             r == ProcessKpiRow(data, rn, seen_keys, anomaly_thresholds)
         IN  /\ staging_rows' = Append(staging_rows, [row_number |-> rn, data |-> data])
             /\ staging_row' = [row_number |-> rn, data |-> data]
             /\ row_number' = rn
             /\ outcome' = IF r.accepted THEN "accepted" ELSE "rejected"
             /\ seen_keys' = r.seen
             /\ valid_records' = IF r.accepted THEN Append(valid_records, r.record)
                                 ELSE valid_records
             /\ dq_count' = dq_count + r.count
             /\ dq_issues' = dq_issues \o r.issues
    /\ UNCHANGED <<component, pc, anomaly_thresholds, load_calls, calcVars, evalVars,
                   batchVars>>

\* after the loop: load_fact_kpi(valid_records) when there are any, return
KpiFinish ==
    /\ component = "kpi"
    /\ pc = "scan"
    /\ pc' = "done"
    /\ load_calls' = IF valid_records # <<>> THEN Append(load_calls, valid_records)
                     ELSE load_calls
    /\ UNCHANGED <<component, anomaly_thresholds, staging_rows, staging_row, row_number,
                   outcome, seen_keys, valid_records, dq_count, dq_issues, calcVars, evalVars,
                   batchVars>>

NextKpi == KpiScanRow \/ KpiFinish

SpecKpi == InitKpi /\ [][NextKpi]_vars

\* both cleansers: a run of _process_operations or a run of _process_kpi
InitCleansers == InitOps \/ InitKpi

NextCleansers == NextOps \/ NextKpi

SpecCleansers == InitCleansers /\ [][NextCleansers]_vars

-----------------------------------------------------------------------------
(* Batch orchestrator (run_batch) and the upload that creates batches *)

D_operations == <<"o", "p", "e", "r", "a", "t", "i", "o", "n", "s">>
D_kpi == <<"k", "p", "i">>
D_inventory == <<"i", "n", "v", "e", "n", "t", "o", "r", "y">>

\* staging_table_map
StagingTableMap ==
    (D_operations :> <<"s", "t", "g", "_", "o", "p", "e", "r", "a", "t", "i", "o", "n", "s">>)
    @@ (D_kpi :> <<"s", "t", "g", "_", "k", "p", "i", "_", "r", "a", "w">>)

\* mutant of Supported: every dataset is dispatched
Supported_Any(dataset) == TRUE

\* dataset in staging_table_map
Supported(dataset) == dataset \in DOMAIN StagingTableMap

\* an exception: str(exc) is its text
Exception(type, text) == [t |-> "exc", type |-> type, text |-> text]

\* ValueError(f"batch {batch_id} not found")
NotFound(b) == Exception("ValueError", <<"b", "a", "t", "c", "h", " ">> \o NatDigits(b) \o <<" ", "n", "o", "t", " ", "f", "o", "u", "n", "d">>)

\* ValueError(f"unsupported dataset: {dataset}")
Unsupported(dataset) == Exception("ValueError", <<"u", "n", "s", "u", "p", "p", "o", "r", "t", "e", "d", " ", "d", "a", "t", "a", "s", "e", "t", ":", " ">> \o dataset)

\* an exception raised by load_fact_operations / load_fact_kpi
LoadError == Exception("Error", <<"l", "o", "a", "d", " ", "f", "a", "i", "l", "e", "d">>)

\* an exception raised inside process_uploads
UploadError == Exception("Error", <<"u", "p", "l", "o", "a", "d", " ", "f", "a", "i", "l", "e", "d">>)

\* f"Loaded {loaded_count} rows with {dq_count} dq issues"
LoadedMessage(loaded_count, count) ==
    Str(<<"L", "o", "a", "d", "e", "d", " ">> \o NatDigits(loaded_count) \o <<" ", "r", "o", "w", "s", " ", "w", "i", "t", "h", " ">> \o NatDigits(count)
        \o <<" ", "d", "q", " ", "i", "s", "s", "u", "e", "s">>)

\* a row of upload_batches: create_upload_batch inserts it with status
\* 'processing'; the columns run_batch adds are NULL
BatchRow(dataset, status, message) ==
    [dataset |-> dataset, status |-> status, message |-> message,
     processed_rows |-> None, dq_error_count |-> None]

\* update_batch_summary: status and message are set, the row's other columns
\* modelled here are left alone
SummaryUpdate(row, status, message) ==
    [row EXCEPT !.status = status, !.message = message]

\* mutant of CompletedUpdate: dq_error_count counts rejected rows, not issues
CompletedUpdate_CountsRows(row, loaded_count, count, rows_read) ==
    [row EXCEPT !.status = "completed", !.processed_rows = Num(loaded_count),
                !.dq_error_count = Num(rows_read - loaded_count),
                !.message = LoadedMessage(loaded_count, count)]

\* UPDATE upload_batches SET status = 'completed', processed_rows, dq_error_count,
\* message WHERE id = ?   (processing_ms and completed_at are clock values)
CompletedUpdate(row, loaded_count, count, rows_read) ==
    [row EXCEPT !.status = "completed", !.processed_rows = Num(loaded_count),
                !.dq_error_count = Num(count),
                !.message = LoadedMessage(loaded_count, count)]

\* mutant of FailedUpdate: the message of the failure is not stored
FailedUpdate_NoMessage(row, exc) == [row EXCEPT !.status = "failed"]

\* UPDATE upload_batches SET status = 'failed', message = str(exc) WHERE id = ?
FailedUpdate(row, exc) == [row EXCEPT !.status = "failed", !.message = Str(exc.text)]

\* a dq_issues row: _record_issue stores batch_id and dataset with the issue
IssueRow(b, dataset, issue) ==
    [batch_id |-> b, dataset |-> dataset, row_number |-> issue.row_number,
     issue_type |-> issue.issue_type, subject |-> issue.subject,
     issue_message |-> issue.issue_message, context |-> issue.context]

IssueRows(b, dataset, issues) ==
    [i \in 1..Len(issues) |-> IssueRow(b, dataset, issues[i])]

\* rows process_uploads stages: validate_row found factory_code, date,
\* employee_id, indicator and a numeric value; further columns are stored as read
UploadBase(date) ==
    (K_factory_code :> Str(T_F1)) @@ (K_date :> Str(date)) @@ (K_employee_id :> Str(T_E1))
    @@ (K_indicator :> Str(T_Scrap)) @@ (K_value :> Num(7))

\* staged rows: row_number = index + 2, data = the row as a JSON object
Staged(payloads) ==
    [i \in 1..Len(payloads) |-> [row_number |-> i + 1, data |-> Obj(payloads[i])]]

Rows_JanTwice ==
    Staged(<< (K_revenue :> Num(100)) @@ UploadBase(T_Jan05),
              (K_revenue :> Num(100)) @@ UploadBase(T_Jan20) >>)

Rows_RevenueAbc == Staged(<< (K_revenue :> Str(T_abc)) @@ UploadBase(T_Feb01) >>)

Rows_Anomaly == Staged(<< (K_revenue :> Num(2000000)) @@ UploadBase(T_Feb01) >>)

\* what one process_uploads call leaves behind: the dataset, the rows it staged
\* and the status of its last update (failed: an exception ended the upload)
Uploads ==
    { [dataset |-> D_operations, rows |-> Rows_JanTwice, status |-> "completed"],
      [dataset |-> D_operations, rows |-> Rows_RevenueAbc, status |-> "completed_with_errors"],
      [dataset |-> D_operations, rows |-> Rows_Anomaly, status |-> "completed"],
      [dataset |-> D_kpi, rows |-> Rows_JanTwice, status |-> "completed"],
      [dataset |-> D_kpi, rows |-> Rows_RevenueAbc, status |-> "failed"],
      [dataset |-> D_operations, rows |-> <<>>, status |-> "failed"] }

\* staging rows that did not pass through validate_row
Rows_Unvalidated ==
    << [row_number |-> 2, data |-> Obj(<<>>)],
       [row_number |-> 3, data |-> Malformed],
       [row_number |-> 4,
        data |-> Obj((K_factory_code :> Str(T_F1)) @@ (K_date :> Str(T_Feb01))
                     @@ (K_revenue :> Str(T_abc)))] >>

\* the database run_batch and process_uploads find: empty, or one batch still
\* 'processing' whose dataset is not in staging_table_map, or one operations
\* batch still 'processing' whose staging rows were not validated
InitialDatabases ==
    { [upload_batches |-> <<>>, staging |-> <<>>],
      [upload_batches |-> <<BatchRow(D_inventory, "processing", None)>>,
       staging |-> << <<>> >>],
      [upload_batches |-> <<BatchRow(D_operations, "processing", None)>>,
       staging |-> <<Rows_Unvalidated>>] }

\* connection.commit(): what the connection sees becomes durable
Committed(batches, issues, loads) ==
    [upload_batches |-> batches, dq_issues |-> issues, load_calls |-> loads]

InitBatch ==
    /\ component = "batch"
    /\ pc = "idle"
    /\ \E db \in InitialDatabases :
         /\ upload_batches = db.upload_batches
         /\ staging = db.staging
         /\ committed = Committed(db.upload_batches, <<>>, <<>>)
    /\ run = NoRun
    /\ PipeIdle
    /\ CalcIdle
    /\ EvalIdle

\* no run_batch call is in progress
NoCallInProgress == pc \in {"idle", "returned", "raised"}

\* process_uploads: create_upload_batch and commit, stage the valid rows, update
\* the summary (or mark the batch failed) and commit
Upload ==
    /\ component = "batch"
    /\ NoCallInProgress
    /\ Len(upload_batches) < MaxBatch
    /\ \E u \in Uploads :
         /\ upload_batches' =
                Append(upload_batches,
                       SummaryUpdate(BatchRow(u.dataset, "processing", None), u.status,
                                     IF u.status = "failed" THEN Str(UploadError.text)
                                     ELSE None))
         /\ staging' = Append(staging, u.rows)
    /\ committed' = Committed(upload_batches', dq_issues, load_calls)
    /\ UNCHANGED <<component, pc, run, pipeVars, calcVars, evalVars>>

\* the locals of a _process_* call before its loop
CleanserLocals ==
    /\ staging_rows' = <<>>
    /\ staging_row' = [row_number |-> 0, data |-> Malformed]
    /\ row_number' = 0
    /\ outcome' = "none"
    /\ seen_keys' = {}
    /\ valid_records' = <<>>
    /\ dq_count' = 0

\* run_batch, lines 477-500: the batch is read; an unknown id and an unsupported
\* dataset raise before the try statement; else the staging rows are selected
RunStart ==
    /\ component = "batch"
    /\ NoCallInProgress
    /\ run.call < MaxRuns
    /\ \E b \in 1..(Len(upload_batches) + 1) :
         LET found == b \in DOMAIN upload_batches
             dataset == IF found THEN upload_batches[b].dataset ELSE <<>>
             fatal == IF ~found THEN NotFound(b)
                      ELSE IF ~Supported(dataset) THEN Unsupported(dataset)
                      ELSE None
         IN  /\ run' = [call |-> run.call + 1, batch_id |-> b, dataset |-> dataset,
                        exc |-> None, raised |-> fatal, result |-> None,
                        updates |-> <<>>, issues_before |-> Len(dq_issues),
                        loads_before |-> Len(load_calls)]
             /\ pc' = IF fatal # None THEN "raised" ELSE "cleanse"
    /\ CleanserLocals
    /\ UNCHANGED <<component, anomaly_thresholds, dq_issues, load_calls, upload_batches,
                   staging, committed, calcVars, evalVars>>

\* the cleanser run_batch dispatches to: _process_operations for 'operations',
\* _process_kpi for every other dataset
CleanseRow(dataset, data, rn, seen, thresholds) ==
    IF dataset = D_operations THEN ProcessOperationsRow(data, rn, seen, thresholds)
    ELSE ProcessKpiRow(data, rn, seen, LowerKeys(thresholds))

\* one iteration of the cleanser's loop over the staging rows of the batch; the
\* issues are inserted through the connection, nothing is committed
RunCleanseRow ==
    /\ component = "batch"
    /\ pc = "cleanse"
    /\ Len(staging_rows) < Len(staging[run.batch_id])
    /\ LET row == staging[run.batch_id][Len(staging_rows) + 1]
           r == CleanseRow(run.dataset, row.data, row.row_number, seen_keys,
                           anomaly_thresholds)
       IN  /\ staging_rows' = Append(staging_rows, row)
           /\ staging_row' = row
           /\ row_number' = row.row_number
           /\ outcome' = IF r.accepted THEN "accepted" ELSE "rejected"
           /\ seen_keys' = r.seen
           /\ valid_records' = IF r.accepted THEN Append(valid_records, r.record)
                               ELSE valid_records
           /\ dq_count' = dq_count + r.count
           /\ dq_issues' = dq_issues \o IssueRows(run.batch_id, run.dataset, r.issues)
    /\ UNCHANGED <<component, pc, anomaly_thresholds, load_calls, calcVars, evalVars,
                   batchVars>>

\* what a loader call does: it stores the records and leaves the transaction
\* open, or stores them and commits, or raises
LoaderOutcomes == {"loaded", "loaded and committed", "raised"}

\* after the loop: load_fact_*(connection, valid_records) when there are
\* records, then return len(valid_records), dq_count
RunLoad ==
    /\ component = "batch"
    /\ pc = "cleanse"
    /\ Len(staging_rows) = Len(staging[run.batch_id])
    /\ IF valid_records = <<>>
       THEN /\ pc' = "finalize"
            /\ UNCHANGED <<load_calls, committed, run>>
       ELSE \E loader \in LoaderOutcomes :
              IF loader = "raised"
              THEN /\ pc' = "except"
                   /\ run' = [run EXCEPT !.exc = LoadError]
                   /\ UNCHANGED <<load_calls, committed>>
              ELSE /\ pc' = "finalize"
                   /\ load_calls' = Append(load_calls, valid_records)
                   /\ committed' = IF loader = "loaded and committed"
                                   THEN Committed(upload_batches, dq_issues, load_calls')
                                   ELSE committed
                   /\ UNCHANGED run
    /\ UNCHANGED <<component, anomaly_thresholds, staging_rows, staging_row, row_number,
                   outcome, seen_keys, valid_records, dq_count, dq_issues, upload_batches,
                   staging, calcVars, evalVars>>

\* run_batch, lines 520-548: the finalize update, the commit, the returned dict
RunFinalize ==
    /\ component = "batch"
    /\ pc = "finalize"
    /\ upload_batches' =
           [upload_batches EXCEPT ![run.batch_id] =
               CompletedUpdate(@, Len(valid_records), dq_count, Len(staging_rows))]
    /\ committed' = Committed(upload_batches', dq_issues, load_calls)
    /\ run' = [run EXCEPT !.updates = Append(@, "completed"),
                          !.result = [t |-> "dict", batch_id |-> run.batch_id,
                                      dataset |-> run.dataset, status |-> "completed",
                                      loaded_rows |-> Len(valid_records),
                                      dq_issues |-> dq_count]]
    /\ pc' = "returned"
    /\ UNCHANGED <<component, staging, pipeVars, calcVars, evalVars>>

\* run_batch, lines 549-559: the except clause updates the batch to failed,
\* commits and raises the exception it caught
RunFail ==
    /\ component = "batch"
    /\ pc = "except"
    /\ upload_batches' =
           [upload_batches EXCEPT ![run.batch_id] = FailedUpdate(@, run.exc)]
    /\ committed' = Committed(upload_batches', dq_issues, load_calls)
    /\ run' = [run EXCEPT !.updates = Append(@, "failed"), !.raised = run.exc]
    /\ pc' = "raised"
    /\ UNCHANGED <<component, staging, pipeVars, calcVars, evalVars>>

\* the process ends while a call is in progress: what was not committed is
\* gone; the locals are kept to tell what the call had done
Crash ==
    /\ component = "batch"
    /\ pc \in {"cleanse", "finalize", "except"}
    /\ upload_batches' = committed.upload_batches
    /\ dq_issues' = committed.dq_issues
    /\ load_calls' = committed.load_calls
    /\ pc' = "crashed"
    /\ UNCHANGED <<component, anomaly_thresholds, staging_rows, staging_row, row_number,
                   outcome, seen_keys, valid_records, dq_count, staging, committed, run,
                   calcVars, evalVars>>

NextBatch == Upload \/ RunStart \/ RunCleanseRow \/ RunLoad \/ RunFinalize \/ RunFail \/ Crash

SpecBatch == InitBatch /\ [][NextBatch]_vars

-----------------------------------------------------------------------------
(* KPI engine: numbers *)

\* Values of the engine are exact fractions [n, d] in lowest terms, d > 0.
RECURSIVE Gcd(_, _)
Gcd(a, b) == IF b = 0 THEN a ELSE Gcd(b, a % b)

Frac(n, d) ==
    LET g == Gcd(Abs(n), Abs(d))
        sgn == IF d < 0 THEN -1 ELSE 1
    IN  [n |-> sgn * (n \div g), d |-> sgn * (d \div g)]

R(n) == [n |-> n, d |-> 1]

RAdd(a, b) == Frac(a.n * b.d + b.n * a.d, a.d * b.d)
RSub(a, b) == Frac(a.n * b.d - b.n * a.d, a.d * b.d)
RMul(a, b) == Frac(a.n * b.n, a.d * b.d)
RDiv(a, b) == Frac(a.n * b.d, a.d * b.n)
RNeg(a) == [n |-> -a.n, d |-> a.d]
RLess(a, b) == a.n * b.d < b.n * a.d
RFloor(a) == R(a.n \div a.d)

\* base ** exponent for a whole exponent
RECURSIVE RPow(_, _)
RPow(a, k) == IF k = 0 THEN R(1) ELSE RMul(a, RPow(a, k - 1))

-----------------------------------------------------------------------------
(* Expression evaluator: formula text *)

\* A formula is its sequence of lexical tokens.
TNum(v) == [k |-> "num", s |-> "", v |-> v]
TName(id) == [k |-> "name", s |-> id, v |-> 0]
TOp(s) == [k |-> "op", s |-> s, v |-> 0]

IsOp(toks, p, s) == p <= Len(toks) /\ toks[p].k = "op" /\ toks[p].s = s

\* mutant of NormalizeExpression: the "name =" prefix is kept
NormalizeExpression_KeepPrefix(expression) == expression

\* _normalize_expression: the text after the first "=", else the whole text
NormalizeExpression(expression) ==
    IF \E i \in 1..Len(expression) : IsOp(expression, i, "=")
    THEN LET first == CHOOSE i \in 1..Len(expression) :
                         /\ IsOp(expression, i, "=")
                         /\ \A j \in 1..(i - 1) : ~IsOp(expression, j, "=")
         IN  SubSeq(expression, first + 1, Len(expression))
    ELSE expression

-----------------------------------------------------------------------------
(* Expression evaluator: ast.parse *)

Constant(v) == [node |-> "Constant", v |-> v]
Name(id) == [node |-> "Name", id |-> id]
BinOp(op, left, right) == [node |-> "BinOp", op |-> op, left |-> left, right |-> right]
UnaryOp(op, operand) == [node |-> "UnaryOp", op |-> op, operand |-> operand]
Call(func, args) == [node |-> "Call", func |-> func, args |-> args]
Attribute(value, attr) == [node |-> "Attribute", value |-> value, attr |-> attr]
Subscript(value, index) == [node |-> "Subscript", value |-> value, index |-> index]
Assign(target, value) == [node |-> "Assign", target |-> target, value |-> value]
Pass == [node |-> "Pass"]

\* result of a parsing step: ok = FALSE stands for SyntaxError
Parsed(ast, pos) == [ok |-> TRUE, ast |-> ast, pos |-> pos]
SyntaxError == [ok |-> FALSE, ast |-> Pass, pos |-> 0]

BinOpName(s) ==
    CASE s = "+" -> "Add" [] s = "-" -> "Sub" [] s = "*" -> "Mult" [] s = "/" -> "Div"
      [] s = "%" -> "Mod" [] s = "//" -> "FloorDiv" [] OTHER -> "Pow"

RECURSIVE ParseArith(_, _), ParseArithRest(_, _), ParseTerm(_, _), ParseTermRest(_, _)
RECURSIVE ParseFactor(_, _), ParsePower(_, _), ParseTrailers(_, _), ParseArgs(_, _, _)
RECURSIVE ParseAtom(_, _)

\* the token s that has to follow the parsed part e
Expect(toks, e, s) ==
    IF e.ok /\ IsOp(toks, e.pos, s) THEN Parsed(e.ast, e.pos + 1) ELSE SyntaxError

\* the parsed part that has to span the whole text
WholeText(toks, e) == IF e.ok /\ e.pos = Len(toks) + 1 THEN e ELSE SyntaxError

\* left <operator s> right
JoinBinOp(s, left, right) ==
    IF right.ok THEN Parsed(BinOp(BinOpName(s), left.ast, right.ast), right.pos)
    ELSE SyntaxError

\* <sign s> operand
SignOf(s, operand) ==
    IF operand.ok
    THEN Parsed(UnaryOp(IF s = "-" THEN "USub" ELSE "UAdd", operand.ast), operand.pos)
    ELSE SyntaxError

\* func "(" args ")"
CallOf(func, args) ==
    IF args.ok THEN Parsed(Call(func.ast, args.ast), args.pos) ELSE SyntaxError

\* value "[" index "]"
SubscriptOf(value, index) ==
    IF index.ok THEN Parsed(Subscript(value.ast, index.ast), index.pos) ELSE SyntaxError

\* target "=" value
AssignOf(target, value) ==
    IF value.ok THEN Parsed(Assign(target.ast, value.ast), value.pos) ELSE SyntaxError

\* atom: NUMBER | NAME | "(" expr ")"
ParseAtom(toks, p) ==
    IF p > Len(toks) THEN SyntaxError
    ELSE IF toks[p].k = "num" THEN Parsed(Constant(toks[p].v), p + 1)
    ELSE IF toks[p].k = "name" THEN Parsed(Name(toks[p].s), p + 1)
    ELSE IF IsOp(toks, p, "(") THEN Expect(toks, ParseArith(toks, p + 1), ")")
    ELSE SyntaxError

\* the argument e, then "," and more arguments, or the closing ")"
ArgsOf(toks, acc, e) ==
    IF ~e.ok THEN SyntaxError
    ELSE IF IsOp(toks, e.pos, ",") THEN ParseArgs(toks, Append(acc, e.ast), e.pos + 1)
    ELSE IF IsOp(toks, e.pos, ")") THEN Parsed(Append(acc, e.ast), e.pos + 1)
    ELSE SyntaxError

\* call arguments up to the closing ")"
ParseArgs(toks, acc, p) == ArgsOf(toks, acc, ParseArith(toks, p))

\* trailers after the parsed part left: call "(...)", attribute ".name",
\* subscript "[...]"
ParseTrailers(toks, left) ==
    IF ~left.ok THEN SyntaxError
    ELSE IF IsOp(toks, left.pos, "(")
    THEN IF IsOp(toks, left.pos + 1, ")")
         THEN ParseTrailers(toks, Parsed(Call(left.ast, <<>>), left.pos + 2))
         ELSE ParseTrailers(toks, CallOf(left, ParseArgs(toks, <<>>, left.pos + 1)))
    ELSE IF IsOp(toks, left.pos, ".")
    THEN IF left.pos + 1 <= Len(toks) /\ toks[left.pos + 1].k = "name"
         THEN ParseTrailers(toks, Parsed(Attribute(left.ast, toks[left.pos + 1].s),
                                         left.pos + 2))
         ELSE SyntaxError
    ELSE IF IsOp(toks, left.pos, "[")
    THEN ParseTrailers(toks, SubscriptOf(left,
                                 Expect(toks, ParseArith(toks, left.pos + 1), "]")))
    ELSE left

\* the optional "**" factor after the parsed part base
PowerOf(toks, base) ==
    IF base.ok /\ IsOp(toks, base.pos, "**")
    THEN JoinBinOp("**", base, ParseFactor(toks, base.pos + 1))
    ELSE base

\* power: atom trailers ["**" factor]
ParsePower(toks, p) == PowerOf(toks, ParseTrailers(toks, ParseAtom(toks, p)))

\* factor: ("+" | "-") factor | power
ParseFactor(toks, p) ==
    IF IsOp(toks, p, "+") \/ IsOp(toks, p, "-")
    THEN SignOf(toks[p].s, ParseFactor(toks, p + 1))
    ELSE ParsePower(toks, p)

\* (("*" | "/" | "%" | "//") factor)* after the parsed part left
ParseTermRest(toks, left) ==
    IF ~left.ok THEN SyntaxError
    ELSE IF \/ IsOp(toks, left.pos, "*") \/ IsOp(toks, left.pos, "/")
            \/ IsOp(toks, left.pos, "%") \/ IsOp(toks, left.pos, "//")
    THEN ParseTermRest(toks, JoinBinOp(toks[left.pos].s, left,
                                       ParseFactor(toks, left.pos + 1)))
    ELSE left

\* term: factor (("*" | "/" | "%" | "//") factor)*
ParseTerm(toks, p) == ParseTermRest(toks, ParseFactor(toks, p))

\* (("+" | "-") term)* after the parsed part left
ParseArithRest(toks, left) ==
    IF ~left.ok THEN SyntaxError
    ELSE IF IsOp(toks, left.pos, "+") \/ IsOp(toks, left.pos, "-")
    THEN ParseArithRest(toks, JoinBinOp(toks[left.pos].s, left,
                                        ParseTerm(toks, left.pos + 1)))
    ELSE left

\* expr: term (("+" | "-") term)*
ParseArith(toks, p) == ParseArithRest(toks, ParseTerm(toks, p))

\* ast.parse(expression, mode="eval"): one expression spanning the whole text
ParseEval(toks) == WholeText(toks, ParseArith(toks, 1))

\* the statement that starts with the parsed expression e: the expression
\* itself, or an assignment "e = value"
StatementOf(toks, e) ==
    IF ~e.ok THEN SyntaxError
    ELSE IF e.pos = Len(toks) + 1 THEN e
    ELSE IF IsOp(toks, e.pos, "=") /\ e.ast.node \in {"Name", "Attribute", "Subscript"}
    THEN AssignOf(e, WholeText(toks, ParseArith(toks, e.pos + 1)))
    ELSE SyntaxError

\* ast.parse(expression) (mode "exec"): an empty module, an expression
\* statement, or an assignment "target = value"
ParseExec(toks) ==
    IF toks = <<>> THEN Parsed(Pass, 1) ELSE StatementOf(toks, ParseArith(toks, 1))

\* the nodes of ast.walk(tree) that are ast.Name: their ids
RECURSIVE NamesOf(_)
NamesOf(ast) ==
    CASE ast.node = "Name" -> {ast.id}
      [] ast.node = "BinOp" -> NamesOf(ast.left) \cup NamesOf(ast.right)
      [] ast.node = "UnaryOp" -> NamesOf(ast.operand)
      [] ast.node = "Call" ->
            NamesOf(ast.func) \cup UNION {NamesOf(ast.args[i]) : i \in 1..Len(ast.args)}
      [] ast.node = "Attribute" -> NamesOf(ast.value)
      [] ast.node = "Subscript" -> NamesOf(ast.value) \cup NamesOf(ast.index)
      [] ast.node = "Assign" -> NamesOf(ast.target) \cup NamesOf(ast.value)
      [] OTHER -> {}

\* the node classes of _ALLOWED_AST_NODES that a tree can be built of (the
\* operator classes Add .. FloorDiv, USub, UAdd and Load are all in the set)
AllowedNodes == {"Constant", "Name", "BinOp", "UnaryOp", "Call"}

\* every node of ast.walk(tree) is an instance of an allowed class
RECURSIVE AllNodesAllowed(_)
AllNodesAllowed(ast) ==
    /\ ast.node \in AllowedNodes
    /\ CASE ast.node = "BinOp" -> AllNodesAllowed(ast.left) /\ AllNodesAllowed(ast.right)
         [] ast.node = "UnaryOp" -> AllNodesAllowed(ast.operand)
         [] ast.node = "Call" ->
               /\ AllNodesAllowed(ast.func)
               /\ \A i \in 1..Len(ast.args) : AllNodesAllowed(ast.args[i])
         [] OTHER -> TRUE

-----------------------------------------------------------------------------
(* Expression evaluator: eval(code_obj, {}, context) *)

\* Values of the evaluation: None, Num(fraction), or a built-in function.
Builtin(id) == [t |-> "builtin", id |-> id]

\* Names the evaluation finds in the built-in namespace that eval() adds to the
\* empty globals (the ones the formulas of this model use).
Builtins == {"abs", "max", "min"}

\* names resolved through the globals of eval(code_obj, {}, context)
GlobalNames == Builtins

\* result of an evaluation step: ok = FALSE stands for a raised Exception
Value(v) == [ok |-> TRUE, val |-> v]
Raised == [ok |-> FALSE, val |-> None]

RECURSIVE Extremal(_, _)
Extremal(args, greatest) ==
    IF Len(args) = 1 THEN args[1].v
    ELSE LET rest == Extremal(Tail(args), greatest)
             head == args[1].v
         IN  IF greatest THEN (IF RLess(head, rest) THEN rest ELSE head)
             ELSE (IF RLess(rest, head) THEN rest ELSE head)

\* a call of a built-in function on evaluated arguments
ApplyBuiltin(id, args) ==
    IF \E i \in 1..Len(args) : args[i].t # "num" THEN Raised
    ELSE IF id = "abs"
    THEN (IF Len(args) = 1
          THEN Value(Num(IF args[1].v.n < 0 THEN RNeg(args[1].v) ELSE args[1].v))
          ELSE Raised)
    ELSE IF Len(args) >= 2 THEN Value(Num(Extremal(args, id = "max")))
    ELSE Raised

\* a binary operator on two numbers (exponents of ** are whole numbers)
Arith(op, a, b) ==
    CASE op = "Add" -> Value(Num(RAdd(a, b)))
      [] op = "Sub" -> Value(Num(RSub(a, b)))
      [] op = "Mult" -> Value(Num(RMul(a, b)))
      [] op = "Div" -> IF b.n = 0 THEN Raised ELSE Value(Num(RDiv(a, b)))
      [] op = "FloorDiv" -> IF b.n = 0 THEN Raised ELSE Value(Num(RFloor(RDiv(a, b))))
      [] op = "Mod" ->
            IF b.n = 0 THEN Raised ELSE Value(Num(RSub(a, RMul(b, RFloor(RDiv(a, b))))))
      [] OTHER ->
            IF b.d # 1 THEN Raised
            ELSE IF b.n >= 0 THEN Value(Num(RPow(a, b.n)))
            ELSE IF a.n = 0 THEN Raised
            ELSE Value(Num(RPow(RDiv(R(1), a), -b.n)))

RECURSIVE EvalNode(_, _)
EvalNode(ast, context) ==
    CASE ast.node = "Constant" -> Value(Num(R(ast.v)))
      [] ast.node = "Name" ->
            IF ast.id \in DOMAIN context THEN Value(context[ast.id])
            ELSE IF ast.id \in GlobalNames THEN Value(Builtin(ast.id))
            ELSE Raised
      [] ast.node = "UnaryOp" ->
            LET o == EvalNode(ast.operand, context)
            IN  IF o.ok /\ o.val.t = "num"
                THEN Value(Num(IF ast.op = "USub" THEN RNeg(o.val.v) ELSE o.val.v))
                ELSE Raised
      [] ast.node = "BinOp" ->
            LET l == EvalNode(ast.left, context)
                r == EvalNode(ast.right, context)
            IN  IF l.ok /\ r.ok /\ l.val.t = "num" /\ r.val.t = "num"
                THEN Arith(ast.op, l.val.v, r.val.v)
                ELSE Raised
      [] ast.node = "Call" ->
            LET f == EvalNode(ast.func, context)
                args == [i \in 1..Len(ast.args) |-> EvalNode(ast.args[i], context)]
            IN  IF f.ok /\ (\A i \in 1..Len(args) : args[i].ok) /\ f.val.t = "builtin"
                THEN ApplyBuiltin(f.val.id, [i \in 1..Len(args) |-> args[i].val])
                ELSE Raised
      [] OTHER -> Raised

\* float(x) of an evaluation result
ToFloat(r) == IF r.ok /\ r.val.t = "num" THEN r ELSE Raised

-----------------------------------------------------------------------------
(* Expression evaluator: registered external functions (function_map) *)

FunctionNames == {"ext_margin", "ext_fail"}

\* function_map[name](context): ext_margin reads revenue and cost of the
\* context, ext_fail always raises
CallFunction(name, context) ==
    IF name = "ext_margin"
    THEN IF /\ "revenue" \in DOMAIN context /\ "cost" \in DOMAIN context
            /\ context["revenue"].t = "num" /\ context["cost"].t = "num"
         THEN Value(Num(RSub(context["revenue"].v, context["cost"].v)))
         ELSE Raised
    ELSE Raised

\* metric.formula in self.function_map
IsFunctionName(formula) ==
    Len(formula) = 1 /\ formula[1].k = "name" /\ formula[1].s \in FunctionNames

-----------------------------------------------------------------------------
(* Expression evaluator: _evaluate_metric, _dependencies_ready *)

\* MetricDefinition
MetricDefinition(metric_code, scope, formula, aggregation, weight, target_source) ==
    [metric_code |-> metric_code, scope |-> scope, formula |-> formula,
     aggregation |-> aggregation, weight |-> weight, target_source |-> target_source]

\* context.get(name)
ContextGet(context, name) == IF name \in DOMAIN context THEN context[name] ELSE None

\* "except Exception: return None" around a float(...) result
FloatOrNone(r) == IF r.ok THEN r.val ELSE None

\* _evaluate_metric after ast.parse: the node check, compile and eval
EvaluateTree(tree, context) ==
    IF ~tree.ok THEN None
    ELSE IF ~AllNodesAllowed(tree.ast) THEN None
    ELSE FloatOrNone(ToFloat(EvalNode(tree.ast, context)))

\* _evaluate_metric: the value, or None; it raises nothing
EvaluateMetric(metric, context) ==
    IF IsNone(metric.formula) THEN ContextGet(context, metric.metric_code)
    ELSE IF IsFunctionName(metric.formula.s)
    THEN FloatOrNone(ToFloat(CallFunction(metric.formula.s[1].s, context)))
    ELSE EvaluateTree(ParseEval(NormalizeExpression(metric.formula.s)), context)

\* _dependencies_ready after ast.parse: every name of the tree is in the
\* context or in function_map
NamesReady(tree, context) ==
    IF ~tree.ok THEN [raised |-> TRUE, ready |-> FALSE]
    ELSE [raised |-> FALSE,
          ready |-> NamesOf(tree.ast) \subseteq (DOMAIN context \cup FunctionNames)]

\* _dependencies_ready: raised = TRUE stands for the SyntaxError of ast.parse
DependenciesReady(metric, context) ==
    IF IsNone(metric.formula) \/ metric.formula.s = <<>>
    THEN [raised |-> FALSE, ready |-> TRUE]
    ELSE NamesReady(ParseExec(NormalizeExpression(metric.formula.s)), context)

-----------------------------------------------------------------------------
(* Dependency resolver: _evaluate_metrics *)

\* the body of the inner loop after value = self._evaluate_metric(...); deps
\* is the outcome of _dependencies_ready, called only when value is None
SettleMetric(metric, st, value, deps) ==
    IF IsNone(value) /\ deps.raised THEN [st EXCEPT !.raised = TRUE]
    ELSE IF IsNone(value) /\ ~deps.ready THEN st
    ELSE [computed |-> (metric.metric_code :> value) @@ st.computed,
          context |-> IF IsNone(value) THEN st.context
                      ELSE (metric.metric_code :> value) @@ st.context,
          progress |-> TRUE,
          raised |-> FALSE]

\* mutant of AttemptMetric: "if metric.metric_code in computed: continue" is
\* left out
AttemptMetric_Retry(metric, st) ==
    IF st.raised THEN st
    ELSE SettleMetric(metric, st, EvaluateMetric(metric, st.context),
                      DependenciesReady(metric, st.context))

\* One iteration of the inner loop "for metric in metric_defs".
\* st = [computed, context, progress, raised]
AttemptMetric(metric, st) ==
    IF st.raised \/ metric.metric_code \in DOMAIN st.computed THEN st
    ELSE SettleMetric(metric, st, EvaluateMetric(metric, st.context),
                      DependenciesReady(metric, st.context))

\* one pass over metric_defs, from position i
RECURSIVE ResolvePass(_, _, _)
ResolvePass(metric_defs, i, st) ==
    IF i > Len(metric_defs) THEN st
    ELSE ResolvePass(metric_defs, i + 1, AttemptMetric(metric_defs[i], st))

\* "for _ in range(len(metric_defs) or 1)", stopping after a pass without progress
RECURSIVE ResolvePasses(_, _, _)

\* "if not progress: break" after a pass that ended in the state after
AfterPass(metric_defs, remaining, after) ==
    IF after.raised \/ ~after.progress THEN after
    ELSE ResolvePasses(metric_defs, remaining - 1, after)

ResolvePasses(metric_defs, remaining, st) ==
    IF remaining = 0 \/ st.raised THEN st
    ELSE AfterPass(metric_defs, remaining,
                   ResolvePass(metric_defs, 1, [st EXCEPT !.progress = FALSE]))

\* "return computed", or the exception that left the loops
Resolved(final) == [computed |-> final.computed, raised |-> final.raised]

\* _evaluate_metrics: [computed, raised]
EvaluateMetrics(metric_defs, base_context) ==
    Resolved(ResolvePasses(metric_defs, IF Len(metric_defs) = 0 THEN 1 ELSE Len(metric_defs),
                           [computed |-> <<>>, context |-> base_context,
                            progress |-> FALSE, raised |-> FALSE]))

-----------------------------------------------------------------------------
(* KPI engine: period dimension and fact queries *)

\* quarter = ceil(month / 3)
QuarterOf(month) == (month + 2) \div 3

\* get_or_create_period(month, year) on the rows of dim_period (period_key =
\* position): the existing key, else the key of a newly appended row
GetOrCreatePeriod(periods, month, year) ==
    IF \E k \in 1..Len(periods) : periods[k].month = month /\ periods[k].year = year
    THEN [period_key |-> CHOOSE k \in 1..Len(periods) :
                            /\ periods[k].month = month /\ periods[k].year = year
                            /\ \A j \in 1..(k - 1) :
                                 ~(periods[j].month = month /\ periods[j].year = year),
          periods |-> periods]
    ELSE [period_key |-> Len(periods) + 1,
          periods |-> Append(periods,
                        [month |-> month, quarter |-> QuarterOf(month), year |-> year])]

RECURSIVE SumR(_)
SumR(values) == IF values = <<>> THEN R(0) ELSE RAdd(Head(values), SumR(Tail(values)))

\* the non-null entries of a column, as fractions
NonNull(column) ==
    LET kept == SelectSeq(column, LAMBDA x : ~IsNone(x))
    IN  [i \in 1..Len(kept) |-> kept[i].v]

\* SQL SUM(column): NULL when every entry is NULL
SqlSum(column) == IF NonNull(column) = <<>> THEN None ELSE Num(SumR(NonNull(column)))

\* SQL AVG(column)
SqlAvg(column) ==
    IF NonNull(column) = <<>> THEN None
    ELSE Num(RDiv(SumR(NonNull(column)), R(Len(NonNull(column)))))

PairLess(a, b) == a[1] < b[1] \/ (a[1] = b[1] /\ a[2] < b[2])

\* the pairs of a set in ascending order (the order the grouped rows are read in)
RECURSIVE SortedPairs(_)
SortedPairs(S) ==
    IF S = {} THEN <<>>
    ELSE LET least == CHOOSE a \in S : \A b \in S : a = b \/ PairLess(a, b)
         IN  <<least>> \o SortedPairs(S \ {least})

\* "if period_filter:" ... "AND period_key IN (...)"
PassesFilter(period_key, period_filter) ==
    period_filter = <<>> \/ \E i \in 1..Len(period_filter) : period_filter[i] = period_key

\* _prepare_factory_records
PrepareFactoryRecords(facts, periods, period_filter) ==
    LET rows == SelectSeq(facts, LAMBDA f : /\ f.period_key \in 1..Len(periods)
                                            /\ PassesFilter(f.period_key, period_filter))
        keys == SortedPairs({<<rows[i].factory_key, rows[i].period_key>> : i \in 1..Len(rows)})
        Group(key) == SelectSeq(rows, LAMBDA f : <<f.factory_key, f.period_key>> = key)
        Column(key, name) == [i \in 1..Len(Group(key)) |-> Group(key)[i][name]]
    IN  [g \in 1..Len(keys) |->
            [scope_id |-> keys[g][1],
             period_key |-> keys[g][2],
             period |-> periods[keys[g][2]],
             base |-> [name \in {"revenue", "cost", "output_qty", "downtime_hours"} |->
                          SqlSum(Column(keys[g], name))],
             targets |-> <<>>]]

\* _prepare_employee_records
PrepareEmployeeRecords(facts, periods, period_filter) ==
    LET rows == SelectSeq(facts, LAMBDA f : /\ f.period_key \in 1..Len(periods)
                                            /\ PassesFilter(f.period_key, period_filter))
        keys == SortedPairs({<<rows[i].employee_key, rows[i].period_key>> : i \in 1..Len(rows)})
        Group(key, code) ==
            SelectSeq(rows, LAMBDA f : /\ <<f.employee_key, f.period_key>> = key
                                       /\ f.metric_code = code)
        Codes(key) == {rows[i].metric_code : i \in {j \in 1..Len(rows) :
                          <<rows[j].employee_key, rows[j].period_key>> = key}}
        GroupValue(key, code) == SqlSum([i \in 1..Len(Group(key, code)) |-> Group(key, code)[i].value])
        GroupTarget(key, code) == SqlAvg([i \in 1..Len(Group(key, code)) |-> Group(key, code)[i].target])
    IN  [g \in 1..Len(keys) |->
            [scope_id |-> keys[g][1],
             period_key |-> keys[g][2],
             period |-> periods[keys[g][2]],
             base |-> [code \in Codes(keys[g]) |-> GroupValue(keys[g], code)],
             targets |-> [code \in {c \in Codes(keys[g]) : ~IsNone(GroupTarget(keys[g], c))} |->
                             GroupTarget(keys[g], code)]]]

-----------------------------------------------------------------------------
(* KPI engine: monthly results (_calculate_for_scope) *)

\* one row of the result list / of fact_kpi_calc (without batch_id)
ResultRow(scope, scope_id, period_key, metric_code, value, target, weight) ==
    [scope |-> scope, scope_id |-> scope_id, period_key |-> period_key,
     metric_code |-> metric_code, value |-> value, target |-> target, weight |-> weight]

\* the rows of one record: one per metric of metric_defs that was resolved
RecordRows(record, metric_defs, computed, scope) ==
    LET selected == SelectSeq(metric_defs, LAMBDA m : m.metric_code \in DOMAIN computed)
    IN  [i \in 1..Len(selected) |->
            ResultRow(scope, record.scope_id, record.period_key, selected[i].metric_code,
                      computed[selected[i].metric_code],
                      IF selected[i].target_source = "fact_kpi"
                      THEN ContextGet(record.targets, selected[i].metric_code)
                      ELSE None,
                      selected[i].weight)]

\* the rows of one record before those of the records after it
RowsThenRest(record, metric_defs, scope, evaluated, rest) ==
    IF evaluated.raised \/ rest.raised THEN [raised |-> TRUE, results |-> <<>>]
    ELSE [raised |-> FALSE,
          results |-> RecordRows(record, metric_defs, evaluated.computed, scope)
                      \o rest.results]

\* _calculate_for_scope: [raised, results]
RECURSIVE CalculateForScope(_, _, _)
CalculateForScope(records, metric_defs, scope) ==
    IF records = <<>> THEN [raised |-> FALSE, results |-> <<>>]
    ELSE RowsThenRest(Head(records), metric_defs, scope,
                      EvaluateMetrics(metric_defs, Head(records).base),
                      CalculateForScope(Tail(records), metric_defs, scope))

-----------------------------------------------------------------------------
(* Aggregator / rollup (_rollup_results, _aggregate_values) *)

\* _aggregate_values; values_with_month holds (month, value, target) triples
AggregateValues(numeric_values, values_with_month, method) ==
    IF numeric_values = <<>> THEN None
    ELSE IF method \in {"avg", "mean"}
    THEN Num(RDiv(SumR(numeric_values), R(Len(numeric_values))))
    ELSE IF method \in {"max", "min"}
    THEN Num(Extremal([i \in 1..Len(numeric_values) |-> Num(numeric_values[i])],
                      method = "max"))
    ELSE IF method = "latest"
    THEN LET latest == CHOOSE i \in 1..Len(values_with_month) :
                          /\ \A j \in 1..Len(values_with_month) :
                               values_with_month[j][1] <= values_with_month[i][1]
                          /\ \A j \in 1..(i - 1) :
                               values_with_month[j][1] < values_with_month[i][1]
         IN  values_with_month[latest][2]
    ELSE Num(SumR(numeric_values))

\* the rows of monthly_results that the grouping loop keeps: those of the scope
\* whose period_key is in period_index
RollupInputs(monthly_results, index, scope) ==
    {i \in 1..Len(monthly_results) :
        /\ monthly_results[i].scope = scope
        /\ monthly_results[i].period_key \in 1..Len(index)}

\* the grouping key of a row: (scope_id, metric_code, year, quarter or None);
\* None is written 0
RollupKey(row, index, level) ==
    <<row.scope_id, row.metric_code, index[row.period_key].year,
      IF level = "quarter" THEN index[row.period_key].quarter ELSE 0>>

\* the members (positions in monthly_results) of every group, in the order in
\* which the groups were first met
RECURSIVE GroupsInOrder(_, _, _, _)
GroupsInOrder(monthly_results, index, level, todo) ==
    IF todo = {} THEN <<>>
    ELSE LET first == CHOOSE i \in todo : \A j \in todo : i <= j
             key == RollupKey(monthly_results[first], index, level)
             members == {i \in todo : RollupKey(monthly_results[i], index, level) = key}
         IN  <<[key |-> key, members |-> members]>>
             \o GroupsInOrder(monthly_results, index, level, todo \ members)

\* the members of a set of positions in ascending order
RECURSIVE Ascending(_)
Ascending(S) ==
    IF S = {} THEN <<>>
    ELSE LET least == CHOOSE i \in S : \A j \in S : i <= j
         IN  <<least>> \o Ascending(S \ {least})

\* _resolve_rollup_period: month = (quarter or 1) * 3 for a quarter, else 12
RollupMonth(quarter, level) ==
    IF level = "quarter" THEN (IF quarter = 0 THEN 1 ELSE quarter) * 3 ELSE 12

\* the loop over grouped.items(): [rows, periods, trace]
RECURSIVE AggregateGroups(_, _, _, _, _, _)
AggregateGroups(groups, monthly_results, metric_defs, index, spec, periods) ==
    IF groups = <<>> THEN [rows |-> <<>>, periods |-> periods, trace |-> <<>>]
    ELSE LET group == Head(groups)
             inputs == Ascending(group.members)
             values == [i \in 1..Len(inputs) |->
                          <<index[monthly_results[inputs[i]].period_key].month,
                            monthly_results[inputs[i]].value,
                            monthly_results[inputs[i]].target>>]
             known == \E m \in 1..Len(metric_defs) : metric_defs[m].metric_code = group.key[2]
             metric == metric_defs[CHOOSE m \in 1..Len(metric_defs) :
                                      metric_defs[m].metric_code = group.key[2]]
             numeric_values == NonNull([i \in 1..Len(values) |-> values[i][2]])
             target_values == NonNull([i \in 1..Len(values) |-> values[i][3]])
             resolved == GetOrCreatePeriod(periods, RollupMonth(group.key[4], spec.level),
                                           group.key[3])
             rest == AggregateGroups(Tail(groups), monthly_results, metric_defs, index,
                                     spec, IF known THEN resolved.periods ELSE periods)
         IN  IF ~known THEN rest
             ELSE [rows |-> <<ResultRow(spec.scope, group.key[1], resolved.period_key,
                                        group.key[2],
                                        AggregateValues(numeric_values, values,
                                                        metric.aggregation),
                                        AggregateValues(target_values, values,
                                                        metric.aggregation),
                                        metric.weight)>> \o rest.rows,
                   periods |-> rest.periods,
                   trace |-> <<[scope |-> spec.scope, level |-> spec.level,
                                scope_id |-> group.key[1], metric_code |-> group.key[2],
                                year |-> group.key[3], quarter |-> group.key[4],
                                inputs |-> inputs]>> \o rest.trace]

\* _rollup_results(monthly_results, metric_defs, index, scope, level)
RollupResults(monthly_results, metric_defs, index, spec, periods) ==
    IF spec.level \notin {"quarter", "year"}
    THEN [rows |-> <<>>, periods |-> periods, trace |-> <<>>]
    ELSE AggregateGroups(
             GroupsInOrder(monthly_results, index, spec.level,
                           RollupInputs(monthly_results, index, spec.scope)),
             monthly_results, metric_defs, index, spec, periods)

-----------------------------------------------------------------------------
(* Formulas, metric configurations and fact tables offered to the engine *)

\* "total = revenue - cost"
F_total == <<TName("total"), TOp("="), TName("revenue"), TOp("-"), TName("cost")>>

\* "revenue - cost"
F_margin == <<TName("revenue"), TOp("-"), TName("cost")>>

\* "margin / cost"
F_ratio == <<TName("margin"), TOp("/"), TName("cost")>>

\* "efficiency = output / hours"
F_efficiency == <<TName("efficiency"), TOp("="), TName("output"), TOp("/"), TName("hours")>>

\* "output_qty / downtime_hours"
F_uptime == <<TName("output_qty"), TOp("/"), TName("downtime_hours")>>

\* "revenue +"
F_dangling == <<TName("revenue"), TOp("+")>>

\* "revenue.real"
F_attribute == <<TName("revenue"), TOp("."), TName("real")>>

\* "revenue[0]"
F_subscript == <<TName("revenue"), TOp("["), TNum(0), TOp("]")>>

\* "abs(cost - revenue)"
F_abs == <<TName("abs"), TOp("("), TName("cost"), TOp("-"), TName("revenue"), TOp(")")>>

\* "max(revenue, cost) * 2"
F_max == <<TName("max"), TOp("("), TName("revenue"), TOp(","), TName("cost"), TOp(")"),
           TOp("*"), TNum(2)>>

\* "ext_margin(revenue)"
F_call_registered == <<TName("ext_margin"), TOp("("), TName("revenue"), TOp(")")>>

\* "ext_margin" and "ext_fail": the names of registered functions
F_ext_margin == <<TName("ext_margin")>>
F_ext_fail == <<TName("ext_fail")>>

\* "missing + 1"
F_missing == <<TName("missing"), TOp("+"), TNum(1)>>

\* "-revenue ** 2 // (cost % 7)"
F_operators == <<TOp("-"), TName("revenue"), TOp("**"), TNum(2), TOp("//"), TOp("("),
                 TName("cost"), TOp("%"), TNum(7), TOp(")")>>

\* "b + 1" and "a + 1": two metrics that need each other
F_b_plus_1 == <<TName("b"), TOp("+"), TNum(1)>>
F_a_plus_1 == <<TName("a"), TOp("+"), TNum(1)>>

\* "sales * 2"
F_bonus == <<TName("sales"), TOp("*"), TNum(2)>>

Factory(code, formula, aggregation) ==
    MetricDefinition(code, "factory", formula, aggregation, None, "")

Employee(code, formula, aggregation) ==
    MetricDefinition(code, "employee", formula, aggregation, Num(R(2)), "fact_kpi")

\* contents of kpi_metrics
MetricConfigs ==
    { <<Factory("margin", Str(F_total), "sum"), Employee("sales", None, "sum")>>,
      <<Factory("ratio", Str(F_ratio), "avg"), Factory("margin", Str(F_margin), "sum"),
        Employee("sales", None, "latest")>>,
      <<Factory("bad", Str(F_dangling), "sum"), Factory("margin", Str(F_margin), "sum"),
        Employee("sales", None, "sum")>>,
      <<Factory("uptime", Str(F_uptime), "latest"), Employee("sales", None, "max")>>,
      <<Factory("a", Str(F_b_plus_1), "sum"), Factory("b", Str(F_a_plus_1), "sum"),
        Factory("revenue", None, "min"),
        Employee("bonus", Str(F_bonus), "min"), Employee("sales", None, "avg")>>,
      <<Factory("spread", Str(F_abs), "sum"), Factory("ext", Str(F_ext_margin), "max")>> }

Period(month, year) == [month |-> month, quarter |-> QuarterOf(month), year |-> year]

OpFact(factory_key, period_key, revenue, cost, output_qty, downtime_hours) ==
    [factory_key |-> factory_key, period_key |-> period_key, revenue |-> revenue,
     cost |-> cost, output_qty |-> output_qty, downtime_hours |-> downtime_hours]

KpiFact(employee_key, period_key, metric_code, value, target) ==
    [employee_key |-> employee_key, period_key |-> period_key, metric_code |-> metric_code,
     value |-> value, target |-> target]

N(n) == Num(R(n))

\* contents of dim_period, fact_operations and fact_kpi before the first run
Warehouses ==
    { \* January 2024 only
      [periods |-> <<Period(1, 2024)>>,
       operations |-> <<OpFact(1, 1, N(100), N(40), N(80), N(0))>>,
       kpi |-> <<KpiFact(1, 1, "sales", N(5), N(8))>>],
      \* February and March 2024, two fact rows for one factory and month
      [periods |-> <<Period(2, 2024), Period(3, 2024)>>,
       operations |-> <<OpFact(1, 1, N(10), N(4), N(8), N(2)),
                        OpFact(1, 1, N(5), None, None, None),
                        OpFact(1, 2, N(20), N(5), N(9), N(3))>>,
       kpi |-> <<KpiFact(1, 1, "sales", N(5), N(8)), KpiFact(1, 2, "sales", N(7), None)>>],
      \* November and December 2024, two factories, a NULL revenue
      [periods |-> <<Period(11, 2024), Period(12, 2024)>>,
       operations |-> <<OpFact(1, 1, N(10), N(4), N(8), N(2)),
                        OpFact(2, 2, None, N(3), N(6), N(0))>>,
       kpi |-> <<KpiFact(1, 2, "sales", N(4), N(6)), KpiFact(2, 2, "sales", None, N(3))>>],
      \* January 2024, the periods of March and December already exist
      [periods |-> <<Period(1, 2024), Period(3, 2024), Period(12, 2024)>>,
       operations |-> <<OpFact(1, 1, N(100), N(40), N(80), N(4))>>,
       kpi |-> <<KpiFact(1, 1, "sales", N(5), N(8))>>],
      \* December 2023 and January 2024
      [periods |-> <<Period(12, 2023), Period(1, 2024)>>,
       operations |-> <<OpFact(1, 1, N(30), N(10), N(8), N(2)),
                        OpFact(1, 2, N(50), N(20), N(9), N(3))>>,
       kpi |-> <<KpiFact(1, 1, "sales", N(3), N(4)), KpiFact(1, 2, "sales", N(6), N(4)),
                 KpiFact(1, 2, "sales", N(1), N(8))>>],
      \* January and February 2024; in February no downtime and a NULL sales value
      [periods |-> <<Period(1, 2024), Period(2, 2024)>>,
       operations |-> <<OpFact(1, 1, N(10), N(4), N(8), N(2)),
                        OpFact(1, 2, N(20), N(5), N(9), N(0))>>,
       kpi |-> <<KpiFact(1, 1, "sales", N(5), N(8)), KpiFact(1, 2, "sales", None, N(6))>>],
      \* nothing loaded yet
      [periods |-> <<>>, operations |-> <<>>, kpi |-> <<>>] }

\* the period_keys argument: None, or the first period only
PeriodFilters == { <<>>, <<1>> }

-----------------------------------------------------------------------------
(* KPI calculation orchestrator (KpiEngine.calculate) *)

\* one row of fact_kpi_calc
CalcFact(batch, row) ==
    [batch_id |-> batch, period_key |-> row.period_key, scope |-> row.scope,
     scope_id |-> row.scope_id, metric_code |-> row.metric_code, value |-> row.value,
     target |-> row.target, weight |-> row.weight]

\* mutant of RowsAfterDelete: the DELETE is left out
RowsAfterDelete_Kept(table, batch) == table

\* DELETE FROM fact_kpi_calc WHERE batch_id = ?
RowsAfterDelete(table, batch) == SelectSeq(table, LAMBDA r : r.batch_id # batch)

\* the four _rollup_results calls of calculate, in order
RollupSteps ==
    << [scope |-> "factory", level |-> "quarter"], [scope |-> "factory", level |-> "year"],
       [scope |-> "employee", level |-> "quarter"], [scope |-> "employee", level |-> "year"] >>

DefsOfScope(metrics, scope) == SelectSeq(metrics, LAMBDA m : m.scope = scope)

InitCalc ==
    /\ component = "calc"
    /\ pc = "idle"
    /\ kpi_metrics \in MetricConfigs
    /\ \E w \in Warehouses :
         /\ dim_period = w.periods
         /\ fact_operations = w.operations
         /\ fact_kpi = w.kpi
    /\ period_keys \in PeriodFilters
    /\ fact_kpi_calc = <<>>
    /\ batch_id = 0
    /\ period_index = <<>>
    /\ results = <<>>
    /\ n_monthly = 0
    /\ rollup_step = 0
    /\ rollup_trace = <<>>
    /\ runs = <<>>
    /\ PipeIdle
    /\ EvalIdle
    /\ BatchIdle

\* calculate, lines 107-110: load the definitions and the period index, delete
\* the rows of the batch
CalcStart ==
    /\ component = "calc"
    /\ pc = "idle"
    /\ Len(runs) < MaxRuns
    /\ \E b \in 1..MaxBatch :
         /\ batch_id' = b
         /\ fact_kpi_calc' = RowsAfterDelete(fact_kpi_calc, b)
    /\ period_index' = dim_period
    /\ results' = <<>>
    /\ n_monthly' = 0
    /\ rollup_step' = 0
    /\ rollup_trace' = <<>>
    /\ pc' = "monthly"
    /\ UNCHANGED <<component, kpi_metrics, dim_period, fact_operations, fact_kpi, period_keys,
                   runs, pipeVars, evalVars, batchVars>>

\* results.extend(...) of both scopes, or the exception that leaves calculate
MonthlyOutcome(factory, employee) ==
    IF factory.raised \/ employee.raised
    THEN /\ pc' = "raised"
         /\ UNCHANGED <<results, n_monthly, rollup_step>>
    ELSE /\ pc' = "rollup"
         /\ results' = factory.results \o employee.results
         /\ n_monthly' = Len(factory.results) + Len(employee.results)
         /\ rollup_step' = 1

\* calculate, lines 112-122: the monthly results of both scopes; a raised
\* exception leaves calculate
CalcMonthly ==
    /\ component = "calc"
    /\ pc = "monthly"
    /\ MonthlyOutcome(
           CalculateForScope(PrepareFactoryRecords(fact_operations, dim_period, period_keys),
                             DefsOfScope(kpi_metrics, "factory"), "factory"),
           CalculateForScope(PrepareEmployeeRecords(fact_kpi, dim_period, period_keys),
                             DefsOfScope(kpi_metrics, "employee"), "employee"))
    /\ UNCHANGED <<component, kpi_metrics, dim_period, fact_operations, fact_kpi, fact_kpi_calc,
                   period_keys, batch_id, period_index, rollup_trace, runs, pipeVars, evalVars, batchVars>>

\* calculate, lines 124-135: the next results.extend(self._rollup_results(results, ...))
CalcRollup ==
    /\ component = "calc"
    /\ pc = "rollup"
    /\ LET spec == RollupSteps[rollup_step]
           rolled == RollupResults(results, DefsOfScope(kpi_metrics, spec.scope), period_index,
                                   spec, dim_period)
       IN  /\ results' = results \o rolled.rows
           /\ dim_period' = rolled.periods
           /\ rollup_trace' = rollup_trace \o rolled.trace
    /\ rollup_step' = rollup_step + 1
    /\ pc' = IF rollup_step = Len(RollupSteps) THEN "write" ELSE "rollup"
    /\ UNCHANGED <<component, kpi_metrics, fact_operations, fact_kpi, fact_kpi_calc, period_keys,
                   batch_id, period_index, n_monthly, runs, pipeVars, evalVars, batchVars>>

\* SELECT ... FROM fact_kpi_calc WHERE batch_id = ?
RowsOfBatch(table, batch) == SelectSeq(table, LAMBDA r : r.batch_id = batch)

\* the rows _write_results inserts
InsertedRows(batch, rows) == [i \in 1..Len(rows) |-> CalcFact(batch, rows[i])]

\* calculate, line 137: _write_results inserts every row of results and commits
CalcWrite ==
    /\ component = "calc"
    /\ pc = "write"
    /\ fact_kpi_calc' = fact_kpi_calc \o InsertedRows(batch_id, results)
    /\ runs' = Append(runs, [batch_id |-> batch_id,
                             rows |-> RowsOfBatch(fact_kpi_calc', batch_id)])
    /\ pc' = "idle"
    /\ UNCHANGED <<component, kpi_metrics, dim_period, fact_operations, fact_kpi, period_keys,
                   batch_id, period_index, results, n_monthly, rollup_step, rollup_trace,
                   pipeVars, evalVars, batchVars>>

NextCalc == CalcStart \/ CalcMonthly \/ CalcRollup \/ CalcWrite

SpecCalc == InitCalc /\ [][NextCalc]_vars

-----------------------------------------------------------------------------
(* Expression evaluator on its own: one _evaluate_metric call at a time *)

\* formula values of a metric: NULL, the empty text, a registered function
\* name, or an expression
Formulas ==
    { None, Str(<<>>), Str(F_total), Str(F_margin), Str(F_ratio), Str(F_efficiency),
      Str(F_uptime), Str(F_dangling), Str(F_attribute), Str(F_subscript), Str(F_abs),
      Str(F_max), Str(F_call_registered), Str(F_ext_margin), Str(F_ext_fail),
      Str(F_missing), Str(F_operators), Str(F_bonus) }

\* {revenue: 100, cost: 40}
Ctx_revenue_cost == ("revenue" :> N(100)) @@ ("cost" :> N(40))

\* {output: 80, hours: 0}
Ctx_output_hours == ("output" :> N(80)) @@ ("hours" :> N(0))

\* contexts: base values of a record (a SUM over NULLs is None) and values of
\* metrics resolved before
Contexts ==
    { Ctx_revenue_cost,
      Ctx_output_hours,
      <<>>,
      ("revenue" :> None) @@ ("cost" :> N(40)),
      ("revenue" :> N(100)) @@ ("cost" :> N(40)) @@ ("margin" :> N(60)),
      ("abs" :> N(5)) @@ ("revenue" :> N(3)) @@ ("cost" :> N(1)),
      ("output_qty" :> N(80)) @@ ("downtime_hours" :> N(4)) @@ ("sales" :> N(5))
          @@ ("revenue" :> N(7)) @@ ("cost" :> N(7)) }

InitEval ==
    /\ component = "eval"
    /\ pc = "idle"
    /\ PipeIdle
    /\ CalcIdle
    /\ EvalIdle
    /\ BatchIdle

\* value = self._evaluate_metric(metric, context)
EvalFormula ==
    /\ component = "eval"
    /\ \E formula \in Formulas, context \in Contexts :
         /\ eval_metric' = Factory("revenue", formula, "sum")
         /\ eval_context' = context
         /\ eval_value' = EvaluateMetric(Factory("revenue", formula, "sum"), context)
    /\ pc' = "evaluated"
    /\ UNCHANGED <<component, pipeVars, calcVars, batchVars, resolveVars>>

NextEval == EvalFormula

SpecEval == InitEval /\ [][NextEval]_vars

-----------------------------------------------------------------------------
(* Dependency resolver on its own: one _evaluate_metrics call, one loop
   iteration at a time, then the rows _calculate_for_scope appends *)

\* "ratio + 1"
F_score == <<TName("ratio"), TOp("+"), TNum(1)>>

\* "uptime + 1"
F_boosted == <<TName("uptime"), TOp("+"), TNum(1)>>

\* "revenue * 2"
F_revenue_twice == <<TName("revenue"), TOp("*"), TNum(2)>>

\* "ext_margin + 1"
F_ext_plus_1 == <<TName("ext_margin"), TOp("+"), TNum(1)>>

\* rows of kpi_metrics of one scope (metric_code is the primary key)
MetricSets ==
    { \* a chain: score needs ratio, ratio needs margin
      { Factory("margin", Str(F_margin), "sum"), Factory("ratio", Str(F_ratio), "sum"),
        Factory("score", Str(F_score), "sum") },
      \* a cycle and a metric outside it
      { Factory("a", Str(F_b_plus_1), "sum"), Factory("b", Str(F_a_plus_1), "sum"),
        Factory("margin", Str(F_margin), "sum") },
      \* a name that nothing provides
      { Factory("orphan", Str(F_missing), "sum"), Factory("margin", Str(F_margin), "sum") },
      \* a metric that needs a metric whose value can be None
      { Factory("uptime", Str(F_uptime), "sum"), Factory("boosted", Str(F_boosted), "sum") },
      \* a metric named like a base fact
      { Factory("revenue", Str(F_revenue_twice), "sum"),
        Factory("margin", Str(F_margin), "sum") },
      \* names of function_map inside an expression
      { Factory("ext", Str(F_ext_margin), "sum"), Factory("extra", Str(F_ext_plus_1), "sum") },
      \* a formula that does not parse
      { Factory("bad", Str(F_dangling), "sum"), Factory("margin", Str(F_margin), "sum") },
      \* a metric named like a built-in
      { Factory("abs", Str(F_margin), "sum"), Factory("spread", Str(F_abs), "sum") },
      \* no formula
      { Factory("revenue", None, "sum"), Factory("sales", None, "sum") },
      {} }

\* the orders in which a SELECT without ORDER BY can return the rows
Orders(rows) ==
    {order \in [1..Cardinality(rows) -> rows] :
        \A i, j \in 1..Cardinality(rows) : order[i] = order[j] => i = j}

ResolverConfigs == UNION {Orders(rows) : rows \in MetricSets}

\* record["base"] of a factory record; a SUM over NULLs is None
BaseContexts ==
    { ("revenue" :> N(100)) @@ ("cost" :> N(40)) @@ ("output_qty" :> N(80))
          @@ ("downtime_hours" :> N(0)),
      ("revenue" :> N(100)) @@ ("cost" :> None) @@ ("output_qty" :> N(80))
          @@ ("downtime_hours" :> N(4)) }

\* the record of the call: scope_id, period_key, targets
ResolverRecord == [scope_id |-> 1, period_key |-> 1, targets |-> <<>>]

\* mutant of PassBound: a single pass
PassBound_SinglePass(metric_defs) == 1

\* mutant of PassBound: one pass more than there are definitions
PassBound_OneMore(metric_defs) == Len(metric_defs) + 1

\* range(len(metric_defs) or 1)
PassBound(metric_defs) == IF Len(metric_defs) = 0 THEN 1 ELSE Len(metric_defs)

InitResolve ==
    /\ component = "resolve"
    /\ pc = "pass"
    /\ resolver_defs \in ResolverConfigs
    /\ resolver_base \in BaseContexts
    /\ resolver = [computed |-> <<>>, context |-> resolver_base, progress |-> FALSE,
                   raised |-> FALSE]
    /\ pass_number = 1
    /\ position = 1
    /\ evaluations = <<>>
    /\ record_rows = <<>>
    /\ PipeIdle
    /\ CalcIdle
    /\ EvalCallIdle
    /\ BatchIdle

\* the _evaluate_metric call of an inner-loop iteration, if it makes one
EvaluationsOf(metric, st) ==
    IF metric.metric_code \in DOMAIN st.computed THEN <<>>
    ELSE <<[pass |-> pass_number, metric_code |-> metric.metric_code]>>

\* one iteration of "for metric in metric_defs"
ResolveAttempt ==
    /\ component = "resolve"
    /\ pc = "pass"
    /\ position <= Len(resolver_defs)
    /\ resolver' = AttemptMetric(resolver_defs[position], resolver)
    /\ evaluations' = evaluations \o EvaluationsOf(resolver_defs[position], resolver)
    /\ IF resolver'.raised
       THEN pc' = "raised" /\ UNCHANGED position
       ELSE pc' = pc /\ position' = position + 1
    /\ UNCHANGED <<component, resolver_defs, resolver_base, pass_number, record_rows,
                   eval_metric, eval_context, eval_value, pipeVars, calcVars, batchVars>>

\* the end of a pass: "if not progress: break", else the next iteration of
\* the outer loop or its exhaustion; then "return computed"
ResolveEndPass ==
    /\ component = "resolve"
    /\ pc = "pass"
    /\ position = Len(resolver_defs) + 1
    /\ IF ~resolver.progress \/ pass_number = PassBound(resolver_defs)
       THEN pc' = "returned" /\ UNCHANGED <<resolver, pass_number, position>>
       ELSE /\ pc' = pc
            /\ resolver' = [resolver EXCEPT !.progress = FALSE]
            /\ pass_number' = pass_number + 1
            /\ position' = 1
    /\ UNCHANGED <<component, resolver_defs, resolver_base, evaluations, record_rows,
                   eval_metric, eval_context, eval_value, pipeVars, calcVars, batchVars>>

\* _calculate_for_scope: the rows of the record, one per resolved metric
ResolveEmit ==
    /\ component = "resolve"
    /\ pc = "returned"
    /\ record_rows' = RecordRows(ResolverRecord, resolver_defs, resolver.computed, "factory")
    /\ pc' = "emitted"
    /\ UNCHANGED <<component, resolver_defs, resolver_base, resolver, pass_number, position,
                   evaluations, eval_metric, eval_context, eval_value, pipeVars, calcVars,
                   batchVars>>

NextResolve == ResolveAttempt \/ ResolveEndPass \/ ResolveEmit

SpecResolve == InitResolve /\ [][NextResolve]_vars

\* the loops, run one iteration at a time, return what _evaluate_metrics returns
ResolverAgreesWithEvaluateMetrics ==
    (component = "resolve" /\ pc \in {"returned", "emitted", "raised"}) =>
        [computed |-> resolver.computed, raised |-> resolver.raised]
            = EvaluateMetrics(resolver_defs, resolver_base)

-----------------------------------------------------------------------------
(* Properties of the row cleanser *)

\* the dq_issues rows of one staging row
RowIssues(rn) == SelectSeq(dq_issues, LAMBDA i : i.row_number = rn)

IssuesOfType(issues, type) == SelectSeq(issues, LAMBDA i : i.issue_type = type)

NoTwoShareOpsKey(records) ==
    \A i, j \in 1..Len(records) :
        i # j => <<records[i].factory_code, records[i].year, records[i].month>>
                 # <<records[j].factory_code, records[j].year, records[j].month>>

\* C1: in every state of an operations run, and in the argument of
\* load_fact_operations, no two accepted records share (factory_code, year, month).
C1_OpsAcceptedKeysUnique ==
    component = "operations" =>
        /\ NoTwoShareOpsKey(valid_records)
        /\ \A c \in 1..Len(load_calls) : NoTwoShareOpsKey(load_calls[c])

\* C1 witness: a finished run that loaded a record and rejected a later row of
\* the same factory and month as a duplicate.
C1_Witness ==
    /\ component = "operations"
    /\ pc = "done"
    /\ Len(load_calls) = 1
    /\ Len(load_calls[1]) = 1
    /\ load_calls[1][1].factory_code = T_F1
    /\ load_calls[1][1].month = 1
    /\ Get(staging_row.data.obj, K_date) = Str(T_Jan20)
    /\ Len(IssuesOfType(RowIssues(2), "duplicate_key")) = 1

NoTwoShareKpiKey(records) ==
    \A i, j \in 1..Len(records) :
        i # j => <<records[i].employee_id, records[i].year, records[i].month,
                   Lower(records[i].metric_code)>>
                 # <<records[j].employee_id, records[j].year, records[j].month,
                     Lower(records[j].metric_code)>>

\* C2: in every state of a KPI run, and in the argument of load_fact_kpi, no two
\* accepted records share (employee_id, year, month, lower(metric_code)); metric
\* codes that differ only in letter case collide.
C2_KpiAcceptedKeysUnique ==
    component = "kpi" =>
        /\ NoTwoShareKpiKey(valid_records)
        /\ \A c \in 1..Len(load_calls) : NoTwoShareKpiKey(load_calls[c])

\* C2 witness: "Sales" was accepted and a later row of the same employee and
\* month with indicator "sales" was rejected as a duplicate.
C2_Witness ==
    /\ component = "kpi"
    /\ pc = "done"
    /\ Len(load_calls) = 1
    /\ Len(load_calls[1]) = 1
    /\ load_calls[1][1].metric_code = T_Sales
    /\ Get(staging_row.data.obj, K_indicator) = Str(T_sales)
    /\ Len(RowIssues(2)) = 1
    /\ RowIssues(2)[1].issue_type = "duplicate_key"

\* the current row got past the JSON, required-field, date, factory, duplicate
\* and metric-extraction steps, so the anomaly loop ran over its metrics
ReachedAnomalyCheck ==
    /\ row_number >= 1
    /\ \A i \in 1..Len(RowIssues(row_number)) :
         LET issue == RowIssues(row_number)[i]
         IN  \/ issue.issue_type = "anomaly"
             \/ issue.issue_type = "invalid_value" /\ issue.subject # K_value

\* the metrics of the current row, read from its payload: the numeric fixed
\* fields, else the lower-cased indicator
RowMetricNames ==
    LET raw == staging_row.data.obj
        fixed == {f \in {K_revenue, K_cost, K_output_qty, K_downtime_hours} :
                     ~IsNone(Get(raw, f)) /\ PyFloat(Get(raw, f)).ok}
    IN  IF fixed # {} THEN fixed
        ELSE IF K_indicator \in DOMAIN raw
        THEN {Lower(Strip(PyStr(raw[K_indicator])))}
        ELSE {}

RowMetricValue(name) ==
    LET raw == staging_row.data.obj
    IN  IF name \in DOMAIN raw /\ name # K_indicator
        THEN PyFloat(raw[name]).v ELSE PyFloat(Get(raw, K_value)).v

RowExceeding ==
    {n \in RowMetricNames :
        LET limit == IF n \in DOMAIN anomaly_thresholds THEN anomaly_thresholds[n]
                     ELSE 1000000
            v == RowMetricValue(n)
        IN  v > limit \/ -v > limit}

OnlyRevenue(v) ==
    Obj((K_factory_code :> Str(T_F1)) @@ (K_date :> Str(T_Feb01)) @@ (K_revenue :> Num(v)))

\* C10: an operations row that reaches the anomaly check records one anomaly
\* issue per metric whose absolute value is strictly beyond its threshold and is
\* rejected when there is such a metric; a first row with only revenue = 2,000,000
\* gives exactly one issue, an anomaly, and no accepted record; a value equal to
\* the threshold is no anomaly.
C10_OpsAnomalyRejectsRow ==
    component = "operations" =>
        /\ ReachedAnomalyCheck =>
             /\ Len(IssuesOfType(RowIssues(row_number), "anomaly")) = Cardinality(RowExceeding)
             /\ \A n \in RowExceeding :
                  \E i \in 1..Len(RowIssues(row_number)) :
                     /\ RowIssues(row_number)[i].issue_type = "anomaly"
                     /\ RowIssues(row_number)[i].context = n
             /\ RowExceeding # {} => outcome = "rejected"
        /\ (row_number = 1 /\ anomaly_thresholds = <<>> /\ staging_row.data = OnlyRevenue(2000000)) =>
             /\ Len(dq_issues) = 1
             /\ dq_issues[1].issue_type = "anomaly"
             /\ valid_records = <<>>
             /\ outcome = "rejected"
        /\ (row_number = 1 /\ anomaly_thresholds = <<>>
            /\ staging_row.data \in {OnlyRevenue(1000000)}) =>
             /\ dq_issues = <<>>
             /\ outcome = "accepted"

\* C10 witness: a row with revenue within range and cost beyond the default
\* threshold was rejected with one anomaly issue.
C10_Witness ==
    /\ component = "operations"
    /\ ReachedAnomalyCheck
    /\ Get(staging_row.data.obj, K_revenue) = Num(100)
    /\ Get(staging_row.data.obj, K_cost) = Num(3000000)
    /\ outcome = "rejected"
    /\ Len(RowIssues(row_number)) = 1
    /\ RowIssues(row_number)[1].issue_type = "anomaly"

-----------------------------------------------------------------------------
(* Properties of the KPI calculation *)

\* rows of a run without the batch id, as a set
RowSet(rows) ==
    {[period_key |-> rows[i].period_key, scope |-> rows[i].scope,
      scope_id |-> rows[i].scope_id, metric_code |-> rows[i].metric_code,
      value |-> rows[i].value, target |-> rows[i].target, weight |-> rows[i].weight] :
        i \in 1..Len(rows)}

\* C3: two successive calculate runs for the same batch id, over unchanged fact
\* tables and metric definitions, leave the same rows of that batch in
\* fact_kpi_calc.
C3_RecalculationIdempotent ==
    \A k \in 1..(Len(runs) - 1) :
        runs[k].batch_id = runs[k + 1].batch_id
            => RowSet(runs[k].rows) = RowSet(runs[k + 1].rows)

\* the aggregation method of a metric of the configuration
AggregationOf(metric_code, scope) ==
    LET defs == DefsOfScope(kpi_metrics, scope)
    IN  defs[CHOOSE m \in 1..Len(defs) : defs[m].metric_code = metric_code].aggregation

\* the monthly rows of the run (positions in results) of one scope, scope id,
\* metric and year
MonthlyRowsOf(scope, scope_id, metric_code, year) ==
    {i \in 1..n_monthly :
        /\ results[i].scope = scope
        /\ results[i].scope_id = scope_id
        /\ results[i].metric_code = metric_code
        /\ dim_period[results[i].period_key].year = year}

\* the sum of the non-null values of the rows at the positions, None without any
SumOfRows(positions) ==
    SqlSum([i \in 1..Len(Ascending(positions)) |-> results[Ascending(positions)[i]].value])

\* C4: for a metric aggregated by sum, the value of every year rollup row is the
\* sum of the non-null monthly values of the same run, scope, scope id, metric
\* and year.
C4_YearRollupIsSumOfMonthly ==
    \A k \in 1..Len(rollup_trace) :
        (/\ rollup_trace[k].level = "year"
         /\ AggregationOf(rollup_trace[k].metric_code, rollup_trace[k].scope) = "sum")
            => results[n_monthly + k].value
                 = SumOfRows(MonthlyRowsOf(rollup_trace[k].scope, rollup_trace[k].scope_id,
                                           rollup_trace[k].metric_code, rollup_trace[k].year))

\* the key of a fact_kpi_calc row
CalcKey(row) == <<row.batch_id, row.scope, row.scope_id, row.metric_code, row.period_key>>

\* C5: no two rows of fact_kpi_calc share (batch_id, scope, scope_id,
\* metric_code, period_key).
C5_CalcRowsUniquePerKey ==
    \A i, j \in 1..Len(fact_kpi_calc) :
        i # j => CalcKey(fact_kpi_calc[i]) # CalcKey(fact_kpi_calc[j])

\* C6: the inputs of every quarter rollup and of every year rollup are monthly
\* rows of the current run only, never rows that are rollups themselves.
C6_RollupInputsAreMonthlyRows ==
    \A k \in 1..Len(rollup_trace) :
        \A i \in 1..Len(rollup_trace[k].inputs) : rollup_trace[k].inputs[i] <= n_monthly

\* C7: metric resolution never raises, whatever the formula texts are:
\* calculate is never left by an exception.
C7_ResolutionNeverRaises == component = "calc" => pc # "raised"

-----------------------------------------------------------------------------
(* Properties of the expression evaluator *)

\* the evaluated formula is an expression (not NULL, not a registered name)
EvaluatedExpression ==
    /\ pc = "evaluated"
    /\ ~IsNone(eval_metric.formula)
    /\ ~IsFunctionName(eval_metric.formula.s)

\* the syntax tree of the evaluated expression
EvaluatedTree == ParseEval(NormalizeExpression(eval_metric.formula.s))

\* C8: an expression evaluates to a value only if every identifier in it is a
\* key of the context or a registered function name, and only if it is built of
\* allowed constructs.
C8_OnlyContextOrRegisteredNames ==
    (EvaluatedExpression /\ ~IsNone(eval_value))
        => /\ EvaluatedTree.ok
           /\ AllNodesAllowed(EvaluatedTree.ast)
           /\ NamesOf(EvaluatedTree.ast) \subseteq (DOMAIN eval_context \cup FunctionNames)

\* the identifiers of the evaluated expression that resolve nowhere
UnresolvableNames ==
    IF EvaluatedTree.ok
    THEN NamesOf(EvaluatedTree.ast) \ (DOMAIN eval_context \cup Builtins)
    ELSE {}

\* the text after the first "=" of the evaluated formula, else the whole text
RightHandSide ==
    LET text == eval_metric.formula.s
        marks == {i \in 1..Len(text) : text[i].k = "op" /\ text[i].s = "="}
    IN  IF marks = {} THEN text
        ELSE SubSeq(text, (CHOOSE i \in marks : \A j \in marks : i <= j) + 1, Len(text))

-----------------------------------------------------------------------------
(* Properties of the operations pipeline over the rows read so far *)

\* the payload passes the JSON, required-field, date and factory steps
ReachesKey(data) ==
    /\ data.json_ok
    /\ ValidateRequiredFields(data.obj, <<K_factory_code, K_date>>, 0) = <<>>
    /\ ParsePeriod(PyStr(Get(data.obj, K_date))).ok
    /\ NormalizeCode(Get(data.obj, K_factory_code), FactoryAlias) # <<>>

\* (factory_code, year, month) of a payload that reaches the key step
KeyOfPayload(data) ==
    <<NormalizeCode(Get(data.obj, K_factory_code), FactoryAlias),
      ParsePeriod(PyStr(Get(data.obj, K_date))).year,
      ParsePeriod(PyStr(Get(data.obj, K_date))).month>>

RecordsOfKey(records, key) ==
    SelectSeq(records, LAMBDA r : <<r.factory_code, r.year, r.month>> = key)

\* rows i < j of the scan both reach the key step and map to the same key
Collide(i, j) ==
    /\ i < j
    /\ ReachesKey(staging_rows[i].data)
    /\ ReachesKey(staging_rows[j].data)
    /\ KeyOfPayload(staging_rows[i].data) = KeyOfPayload(staging_rows[j].data)

\* the key of each row read so far that reaches the key step, else <<>>
KeysRead ==
    [i \in 1..Len(staging_rows) |->
        IF ReachesKey(staging_rows[i].data) THEN KeyOfPayload(staging_rows[i].data)
        ELSE <<>>]

\* no row before row i has the key of row i
FirstOfKey(keys, i) == \A h \in 1..(i - 1) : keys[h] # keys[i]

\* an accepted record of this key is the one row i yields on its own
RecordIsOfRow(key, i) ==
    \A r \in 1..Len(valid_records) :
        <<valid_records[r].factory_code, valid_records[r].year, valid_records[r].month>> = key
        => valid_records[r]
           = ProcessOperationsRow(staging_rows[i].data, i, {}, anomaly_thresholds).record

LaterRowRejected(keys, i, j) ==
    /\ Len(RowIssues(j)) = 1
    /\ RowIssues(j)[1].issue_type = "duplicate_key"
    /\ Len(RecordsOfKey(valid_records, keys[j])) <= 1
    /\ FirstOfKey(keys, i) =>
         /\ IssuesOfType(RowIssues(i), "duplicate_key") = <<>>
         /\ RecordIsOfRow(keys[i], i)

AllCollisionsRejected(keys) ==
    \A j \in 1..Len(keys) :
        keys[j] # <<>> =>
            \A i \in 1..(j - 1) : keys[i] = keys[j] => LaterRowRejected(keys, i, j)

\* C11: of two operations rows of one batch that pass the JSON, required-field,
\* date and factory steps and map to the same (factory_code, year, month), the
\* later one in read order is rejected with exactly one issue, a duplicate_key,
\* and the first row of that key is the one considered for acceptance: it gets no
\* duplicate_key issue, and an accepted record of that key is the first row's.
C11_LaterDuplicateRejected ==
    component = "operations" => AllCollisionsRejected(KeysRead)

\* C11 witness: F1 dated 2024-01-05 was read first and accepted, F1 dated
\* 2024-01-20 was read second and has one issue, a duplicate_key.
C11_Witness ==
    /\ component = "operations"
    /\ Len(staging_rows) = 2
    /\ Collide(1, 2)
    /\ Get(staging_rows[1].data.obj, K_date) = Str(T_Jan05)
    /\ Get(staging_rows[2].data.obj, K_date) = Str(T_Jan20)
    /\ KeyOfPayload(staging_rows[2].data) = <<T_F1, 2024, 1>>
    /\ Len(valid_records) = 1
    /\ RowIssues(2)[1].issue_type = "duplicate_key"

\* the current row passed the JSON, required-field, date, factory and duplicate
\* steps, so its metric fields are looked at
ReachedMetricExtraction ==
    /\ row_number >= 1
    /\ ReachesKey(staging_row.data)
    /\ \A h \in 1..(row_number - 1) : ~Collide(h, row_number)

\* the fixed metric fields the payload carries, in the order of the scan
PresentFixedFields(raw) ==
    SelectSeq(<<K_revenue, K_cost, K_output_qty, K_downtime_hours>>,
              LAMBDA f : f \in DOMAIN raw /\ raw[f] # None)

HasIndicatorPair(raw) ==
    /\ K_indicator \in DOMAIN raw
    /\ K_value \in DOMAIN raw
    /\ raw[K_indicator] \notin {None, Str(<<>>)}
    /\ raw[K_value] # None

RevenueAbc ==
    Obj((K_factory_code :> Str(T_F1)) @@ (K_date :> Str(T_Feb01)) @@ (K_revenue :> Str(T_abc)))

\* C12: an operations row that reaches metric extraction, whose present fixed
\* metric fields are all non-numeric and that has no indicator/value pair, records
\* one invalid_value issue per such field in scan order, then one missing_value
\* issue "no metrics to load", and is rejected; a first row {factory_code: F1,
\* date: 2024-02-01, revenue: abc} gives no accepted record and exactly these two
\* issues: invalid_value for revenue, then missing_value.
C12_NonNumericOnlyRowRejected ==
    component = "operations" =>
        /\ ( /\ ReachedMetricExtraction
             /\ \A k \in 1..Len(PresentFixedFields(staging_row.data.obj)) :
                  ~PyFloat(staging_row.data.obj[PresentFixedFields(staging_row.data.obj)[k]]).ok
             /\ ~HasIndicatorPair(staging_row.data.obj) )
           => LET fields == PresentFixedFields(staging_row.data.obj)
                  issues == RowIssues(row_number)
              IN  /\ outcome = "rejected"
                  /\ Len(issues) = Len(fields) + 1
                  /\ \A k \in 1..Len(fields) :
                       /\ issues[k].issue_type = "invalid_value"
                       /\ issues[k].subject = fields[k]
                  /\ issues[Len(issues)].issue_type = "missing_value"
                  /\ issues[Len(issues)].issue_message = "no metrics to load"
        /\ (row_number = 1 /\ staging_row.data = RevenueAbc) =>
             /\ valid_records = <<>>
             /\ outcome = "rejected"
             /\ Len(dq_issues) = 2
             /\ dq_count = 2
             /\ dq_issues[1].issue_type = "invalid_value"
             /\ dq_issues[1].subject = K_revenue
             /\ dq_issues[2].issue_type = "missing_value"
             /\ dq_issues[2].issue_message = "no metrics to load"

\* C12 witness: a row with two non-numeric fixed fields and no indicator was
\* rejected with three issues.
C12_Witness ==
    /\ component = "operations"
    /\ ReachedMetricExtraction
    /\ Len(PresentFixedFields(staging_row.data.obj)) = 2
    /\ ~HasIndicatorPair(staging_row.data.obj)
    /\ Len(IssuesOfType(RowIssues(row_number), "invalid_value")) = 2
    /\ Len(IssuesOfType(RowIssues(row_number), "missing_value")) = 1
    /\ outcome = "rejected"

\* C18: every operations row is either rejected with at least one recorded
\* issue, or accepted with no issue recorded for it.
C18_AcceptedRowsHaveNoIssue ==
    (component = "operations" /\ row_number >= 1) =>
        \/ outcome = "rejected" /\ RowIssues(row_number) # <<>>
        \/ outcome = "accepted" /\ RowIssues(row_number) = <<>>

-----------------------------------------------------------------------------
(* Properties of the KPI calculation orchestrator's writes *)

BatchIdsOf(table) == {table[i].batch_id : i \in 1..Len(table)}

OtherBatchesUnchanged(batch) ==
    \A other \in (BatchIdsOf(fact_kpi_calc) \cup BatchIdsOf(fact_kpi_calc')) \ {batch} :
        RowsOfBatch(fact_kpi_calc', other) = RowsOfBatch(fact_kpi_calc, other)

\* C20: the first step of calculate(batch_id = B) removes every fact_kpi_calc row
\* of B and leaves the rows of every other batch as they were; no later step of
\* the run but the write touches the table; the write leaves the rows of other
\* batches as they were, and after it the rows of B are exactly the rows this run
\* produced, in the order it produced them.
C20_CalcReplacesOnlyItsBatch ==
    [][ component = "calc" =>
          /\ (pc = "idle" /\ pc' = "monthly") =>
               /\ RowsOfBatch(fact_kpi_calc', batch_id') = <<>>
               /\ OtherBatchesUnchanged(batch_id')
          /\ (pc \in {"monthly", "rollup"}) => fact_kpi_calc' = fact_kpi_calc
          /\ (pc = "write" /\ pc' = "idle") =>
               /\ OtherBatchesUnchanged(batch_id)
               /\ RowsOfBatch(fact_kpi_calc', batch_id)
                  = [i \in 1..Len(results) |-> CalcFact(batch_id, results[i])] ]_vars

\* C20 witness: one batch was calculated twice; its first run left rows, and after
\* its second run the table holds exactly the rows of the second run.
C20_Witness ==
    /\ component = "calc"
    /\ pc = "idle"
    /\ Len(runs) = 2
    /\ runs[1].batch_id = runs[2].batch_id
    /\ runs[1].rows # <<>>
    /\ runs[2].rows # <<>>
    /\ fact_kpi_calc = runs[2].rows

-----------------------------------------------------------------------------
(* Properties of the batch orchestrator *)

\* the upload_batches row of the batch the current call was made for
RunBatchRow == upload_batches[run.batch_id]

\* the dq_issues rows appended since the current call began
IssuesOfRun == SubSeq(dq_issues, run.issues_before + 1, Len(dq_issues))

\* C13: when an exception raised by the cleansing or loading of run_batch has
\* reached the caller, the batch has status failed with the text of that
\* exception as message, the update is committed, the exception that reached the
\* caller is the one that was caught, and this call made no other update of the
\* batch: it never set it to completed and returned nothing.
C13_FailureRecordedThenReraised ==
    (component = "batch" /\ pc = "raised" /\ run.exc # None) =>
        /\ RunBatchRow.status = "failed"
        /\ RunBatchRow.message = Str(run.exc.text)
        /\ committed.upload_batches[run.batch_id] = RunBatchRow
        /\ run.raised = run.exc
        /\ run.updates = <<"failed">>
        /\ run.result = None

\* C13 witness: the loader raised in a call for a batch the upload had left
\* completed; the exception reached the caller and the batch is failed.
C13_Witness ==
    /\ component = "batch"
    /\ pc = "raised"
    /\ run.exc = LoadError
    /\ run.raised = LoadError
    /\ valid_records # <<>>
    /\ committed.upload_batches[run.batch_id].status = "failed"

\* C14: when run_batch has raised for an unknown batch id or for a batch whose
\* dataset is not in staging_table_map, no staging row was processed and a
\* failed-status update was executed before the exception reached the caller.
C14_FatalKindsRecordedAsFailed ==
    (component = "batch" /\ pc = "raised" /\ run.exc = None) =>
        /\ staging_rows = <<>>
        /\ run.updates = <<"failed">>

\* the batch id is unknown or its dataset is not one run_batch dispatches
FatalArgument(b) ==
    \/ b \notin DOMAIN upload_batches
    \/ upload_batches[b].dataset \notin {D_operations, D_kpi}

\* C15: a call of run_batch with an unknown batch id, or for a batch whose dataset
\* is unsupported, raises in its first step, returns nothing, and has written
\* nothing: upload_batches (status, processed_rows, dq_error_count, message of
\* every batch), dq_issues and the loaded facts are as before, in what the
\* connection sees and in what is committed.
C15_FatalCallsWriteNothing ==
    [][ (component = "batch" /\ run'.call = run.call + 1 /\ FatalArgument(run'.batch_id)) =>
          /\ pc' = "raised"
          /\ run'.raised \in {NotFound(run'.batch_id), Unsupported(run'.dataset)}
          /\ run'.result = None
          /\ run'.updates = <<>>
          /\ UNCHANGED <<upload_batches, dq_issues, load_calls, committed>> ]_vars

\* C15 witness: run_batch was called for the batch of dataset 'inventory' after
\* an earlier call; it raised "unsupported dataset" and the batch is as it was.
C15_Witness ==
    /\ component = "batch"
    /\ pc = "raised"
    /\ run.call = 2
    /\ run.raised = Unsupported(D_inventory)
    /\ upload_batches[run.batch_id] = BatchRow(D_inventory, "processing", None)

\* C16: no step of an upload or of run_batch moves a batch from completed to
\* failed or from failed to completed, and a step in which run_batch updates its
\* batch finds that batch in status processing.
C16_StatusStateMachine ==
    [][ component = "batch" =>
          \A b \in DOMAIN upload_batches :
              /\ ~(upload_batches[b].status = "completed"
                   /\ upload_batches'[b].status = "failed")
              /\ ~(upload_batches[b].status = "failed"
                   /\ upload_batches'[b].status = "completed")
              /\ (b = run.batch_id /\ run'.updates # run.updates)
                     => upload_batches[b].status = "processing" ]_vars

\* C17: when run_batch has returned, it executed exactly one update of the batch,
\* the finalize update; the batch is completed; processed_rows is the number of
\* accepted records, which are the records of the one loader call of this run
\* (no call when there are none); dq_error_count is the number of dq_issues rows
\* appended during this run, all of them rows of this batch; and the cleanser's
\* counts and the returned dict carry the same two numbers.
C17_FinalizeCountsMatch ==
    (component = "batch" /\ pc = "returned") =>
        /\ run.updates = <<"completed">>
        /\ RunBatchRow.status = "completed"
        /\ RunBatchRow.processed_rows = Num(Len(valid_records))
        /\ RunBatchRow.dq_error_count = Num(Len(IssuesOfRun))
        /\ \A i \in 1..Len(IssuesOfRun) : IssuesOfRun[i].batch_id = run.batch_id
        /\ IF valid_records = <<>>
           THEN Len(load_calls) = run.loads_before
           ELSE /\ Len(load_calls) = run.loads_before + 1
                /\ load_calls[Len(load_calls)] = valid_records
        /\ dq_count = Len(IssuesOfRun)
        /\ run.result.loaded_rows = Len(valid_records)
        /\ run.result.dq_issues = Len(IssuesOfRun)
        /\ committed = Committed(upload_batches, dq_issues, load_calls)

\* C17 witness: run_batch returned for the batch whose three rows lack both
\* required fields, are no JSON, and carry only a non-numeric revenue: no
\* record, five issues.
C17_Witness ==
    /\ component = "batch"
    /\ pc = "returned"
    /\ staging_rows = Rows_Unvalidated
    /\ RunBatchRow.processed_rows = Num(0)
    /\ RunBatchRow.dq_error_count = Num(5)
    /\ Len(IssuesOfType(IssuesOfRun, "missing_value")) = 3

\* C19: when the process has ended during a run_batch call, before the final
\* commit, every issue the call had recorded is still in dq_issues.
C19_IssuesDurableWhenRecorded ==
    (component = "batch" /\ pc = "crashed") =>
        Len(dq_issues) = run.issues_before + dq_count

-----------------------------------------------------------------------------
(* Properties of the cleansers: loading, outcomes, reserved keys *)

MissingKpiFields(raw) ==
    {f \in {K_employee_id, K_indicator, K_value, K_date} :
        \/ f \notin DOMAIN raw
        \/ raw[f] = None
        \/ raw[f].t = "str" /\ \A c \in 1..Len(raw[f].s) : raw[f].s[c] = " "}

\* the anomaly threshold of the payload's indicator: the entry whose key equals
\* the indicator without regard to letter case, else 1,000,000
KpiLimit(raw, thresholds) ==
    LET code == Lower(Strip(PyStr(raw[K_indicator])))
        hits == {k \in DOMAIN thresholds : Lower(k) = code}
    IN  IF hits = {} THEN 1000000 ELSE thresholds[CHOOSE k \in hits : TRUE]

LaterStageTypes == {"invalid_date", "missing_value", "duplicate_key", "invalid_value", "anomaly"}

KpiRowOutcome(data, issues) ==
    /\ \/ outcome = "accepted" /\ issues = <<>>
       \/ outcome = "rejected" /\ issues # <<>>
    /\ (data.json_ok /\ MissingKpiFields(data.obj) # {}) =>
          /\ outcome = "rejected"
          /\ Len(issues) = Cardinality(MissingKpiFields(data.obj))
          /\ \A i \in 1..Len(issues) : issues[i].issue_type = "missing_value"
          /\ \A f \in MissingKpiFields(data.obj) :
                \E i \in 1..Len(issues) : issues[i].subject = f
    /\ (data.json_ok /\ MissingKpiFields(data.obj) = {} /\ outcome = "rejected") =>
          /\ Len(issues) = 1
          /\ issues[1].issue_type \in LaterStageTypes
    /\ (data.json_ok /\ MissingKpiFields(data.obj) = {} /\ PyFloat(data.obj[K_value]).ok
        /\ Abs(PyFloat(data.obj[K_value]).v) > KpiLimit(data.obj, anomaly_thresholds)) =>
          outcome = "rejected"

\* C28: every KPI staging row is either accepted with no issue recorded or
\* rejected with at least one; a row that lacks k of employee_id, indicator,
\* value, date records exactly k issues, all missing_value, one per field; a row
\* with all four that is rejected records exactly one issue (invalid_date,
\* missing_value for an unresolved employee, duplicate_key, invalid_value or
\* anomaly); a value beyond its threshold never yields an accepted record.
C28_KpiRowOutcomes ==
    (component = "kpi" /\ row_number >= 1) =>
        KpiRowOutcome(staging_row.data, RowIssues(row_number))

\* C28 witness: a row with only employee_id and a blank value was rejected with
\* three missing_value issues.
C28_Witness ==
    /\ component = "kpi"
    /\ row_number >= 1
    /\ staging_row.data.json_ok
    /\ MissingKpiFields(staging_row.data.obj) = {K_indicator, K_value, K_date}
    /\ Len(IssuesOfType(RowIssues(row_number), "missing_value")) = 3
    /\ outcome = "rejected"

\* the payload passes the JSON, required-field, date and employee steps of the
\* KPI pipeline
ReachesKpiKey(data) ==
    /\ data.json_ok
    /\ MissingKpiFields(data.obj) = {}
    /\ ParsePeriod(PyStr(data.obj[K_date])).ok
    /\ NormalizeCode(data.obj[K_employee_id], EmployeeAlias) # <<>>

\* the dedup key a payload reaches the dedup step with, else <<>>
ReservedKey(data) ==
    IF component = "operations"
    THEN IF ReachesKey(data) THEN KeyOfPayload(data) ELSE <<>>
    ELSE IF ReachesKpiKey(data)
         THEN <<NormalizeCode(data.obj[K_employee_id], EmployeeAlias),
                ParsePeriod(PyStr(data.obj[K_date])).year,
                ParsePeriod(PyStr(data.obj[K_date])).month,
                Lower(Strip(PyStr(data.obj[K_indicator])))>>
         ELSE <<>>

ReservedKeys == [i \in 1..Len(staging_rows) |-> ReservedKey(staging_rows[i].data)]

\* the key of an accepted record
RecordKey(r) ==
    IF component = "operations" THEN <<r.factory_code, r.year, r.month>>
    ELSE <<r.employee_id, r.year, r.month, Lower(r.metric_code)>>

\* the row, taken on its own as the first row of a batch, is accepted
AcceptedAlone(data) ==
    IF component = "operations"
    THEN ProcessOperationsRow(data, 1, {}, anomaly_thresholds).accepted
    ELSE ProcessKpiRow(data, 1, {}, anomaly_thresholds).accepted

KeyStaysReserved(keys) ==
    \A j \in 1..Len(keys) :
        keys[j] # <<>> =>
            \A i \in 1..(j - 1) :
                (keys[i] = keys[j] /\ \A h \in 1..(i - 1) : keys[h] # keys[i]) =>
                    /\ Len(RowIssues(j)) = 1
                    /\ RowIssues(j)[1].issue_type = "duplicate_key"
                    /\ ~AcceptedAlone(staging_rows[i].data) =>
                          \A r \in 1..Len(valid_records) : RecordKey(valid_records[r]) # keys[j]

\* C29: in both pipelines, the first row that reaches the dedup step with a key
\* reserves it whatever happens to that row afterwards: every later row of the
\* run with the same key records exactly one issue, a duplicate_key, and when the
\* first row was itself rejected no accepted record has that key.
C29_KeyReservedByRejectedRow ==
    component \in {"operations", "kpi"} => KeyStaysReserved(ReservedKeys)

\* C29 witness: an operations run ended with no accepted record: its first row
\* (F1, February 2024) was rejected as an anomaly and its second row, F1 in
\* February with revenue 100, valid on its own, was rejected as a duplicate.
C29_Witness ==
    /\ component = "operations"
    /\ pc = "done"
    /\ Len(staging_rows) = 2
    /\ valid_records = <<>>
    /\ load_calls = <<>>
    /\ RowIssues(1)[1].issue_type = "anomaly"
    /\ staging_rows[2].data = OnlyRevenue(100)
    /\ AcceptedAlone(staging_rows[2].data)
    /\ Len(RowIssues(2)) = 1
    /\ RowIssues(2)[1].issue_type = "duplicate_key"

-----------------------------------------------------------------------------
(* Properties of the dependency resolver *)

\* the free variables of a metric's formula: the names of the parsed expression
FreeVariables(metric) ==
    IF IsNone(metric.formula) \/ metric.formula.s = <<>> THEN {}
    ELSE LET tree == ParseExec(NormalizeExpression(metric.formula.s))
         IN  IF tree.ok THEN NamesOf(tree.ast) ELSE {}

ResolverEnded == component = "resolve" /\ pc \in {"returned", "emitted"}

\* C22: when resolution ends, every metric whose free variables are all base
\* facts or resolved metrics (resolved with a value or with None) is itself in
\* the result.
C22_ReadyMetricsResolved ==
    ResolverEnded =>
        \A i \in 1..Len(resolver_defs) :
            FreeVariables(resolver_defs[i])
                    \subseteq (DOMAIN resolver_base \cup DOMAIN resolver.computed)
                => resolver_defs[i].metric_code \in DOMAIN resolver.computed

\* the _evaluate_metric calls made by the step
NewEvaluations == {evaluations'[k].metric_code : k \in (Len(evaluations) + 1)..Len(evaluations')}

\* C23: a metric that is in computed, with a value or with None, stays there
\* with the same value and is not passed to _evaluate_metric again, in the same
\* pass or in a later one.
C23_ResolvedNeverRetried ==
    [][ component = "resolve" =>
          \A code \in DOMAIN resolver.computed :
              /\ code \in DOMAIN resolver'.computed
              /\ resolver'.computed[code] = resolver.computed[code]
              /\ code \notin NewEvaluations ]_vars

\* C23 witness: 'uptime' was resolved with None in pass 1; pass 2 has gone
\* past it without evaluating it while 'boosted' was evaluated in both passes.
C23_Witness ==
    /\ component = "resolve"
    /\ pass_number = 2
    /\ position = 3
    /\ resolver_defs[1].metric_code = "uptime"
    /\ resolver.computed = ("uptime" :> None)
    /\ evaluations = << [pass |-> 1, metric_code |-> "uptime"],
                        [pass |-> 1, metric_code |-> "boosted"],
                        [pass |-> 2, metric_code |-> "boosted"] >>

\* the metrics resolved in the given pass: a resolved metric was evaluated for
\* the last time in the pass that resolved it
ResolvedInPass(n) ==
    {code \in DOMAIN resolver.computed :
        \E k \in 1..Len(evaluations) :
            /\ evaluations[k] = [pass |-> n, metric_code |-> code]
            /\ \A j \in (k + 1)..Len(evaluations) : evaluations[j].metric_code # code}

\* the inner loop has gone through all of metric_defs
AtEndOfPass == component = "resolve" /\ pc = "pass" /\ position = Len(resolver_defs) + 1

\* max(N, 1) for N definitions
MostPasses == IF Len(resolver_defs) > 1 THEN Len(resolver_defs) ELSE 1

\* the loop iterations and steps a call can still make, at most
StepsLeft ==
    IF pc = "pass"
    THEN (MostPasses - pass_number) * (Len(resolver_defs) + 2)
             + (Len(resolver_defs) + 1 - position) + 2
    ELSE IF pc = "returned" THEN 1 ELSE 0

\* C24: resolution terminates: it never starts more than max(N, 1) passes for N
\* definitions, inside a pass there is always a next step, and every step
\* lowers a bound on the steps left; a pass that resolved nothing is the last
\* one, and a pass that resolved something is followed by another one unless
\* the bound on the passes is reached.
C24_ResolutionTerminates ==
    [][ component = "resolve" =>
          /\ pass_number >= 1 /\ pass_number' <= MostPasses
          /\ position' \in 1..(Len(resolver_defs) + 1)
          /\ StepsLeft >= 0 /\ StepsLeft' >= 0
          /\ StepsLeft' < StepsLeft
          /\ AtEndOfPass =>
               /\ ResolvedInPass(pass_number) = {} => (pc' = "returned" /\ resolver' = resolver)
               /\ (ResolvedInPass(pass_number) # {} /\ pass_number < MostPasses)
                    => (pc' = "pass" /\ pass_number' = pass_number + 1 /\ position' = 1) ]_vars

\* C24 witness: the chain score, ratio, margin in that order took all three
\* passes, one metric per pass, and has returned.
C24_Witness ==
    /\ component = "resolve"
    /\ pc = "returned"
    /\ Len(resolver_defs) = 3
    /\ resolver_defs[1].metric_code = "score"
    /\ resolver_defs[2].metric_code = "ratio"
    /\ pass_number = 3
    /\ ResolvedInPass(1) = {"margin"}
    /\ ResolvedInPass(2) = {"ratio"}
    /\ ResolvedInPass(3) = {"score"}

MetricCodes == {resolver_defs[i].metric_code : i \in 1..Len(resolver_defs)}

MetricOf(code) == resolver_defs[CHOOSE i \in 1..Len(resolver_defs) :
                                    resolver_defs[i].metric_code = code]

\* the variables a metric's formula reads: its names, without the host's
\* built-in functions that no metric shadows; a formula that is the name of a
\* registered function is a call of that function and reads none
Variables(metric) ==
    IF ~IsNone(metric.formula) /\ IsFunctionName(metric.formula.s) THEN {}
    ELSE FreeVariables(metric) \ (Builtins \ MetricCodes)

\* the metrics a metric needs: those of its variables that only a metric can
\* provide
Needs(code) == (Variables(MetricOf(code)) \cap MetricCodes) \ DOMAIN resolver_base

\* the metrics reached from a set of metrics along Needs, in at most n steps
RECURSIVE NeedsWithin(_, _)
NeedsWithin(codes, n) ==
    IF n = 0 THEN codes
    ELSE NeedsWithin(codes \cup UNION {Needs(c) : c \in codes}, n - 1)

AllNeeds(code) == NeedsWithin(Needs(code), Len(resolver_defs))

\* the metric is on a dependency cycle
Cyclic(code) == code \in AllNeeds(code)

\* the metric reads a variable that is neither a base fact nor a metric
ReadsMissing(code) ==
    Variables(MetricOf(code)) \ (DOMAIN resolver_base \cup MetricCodes) # {}

Unresolvable(code) == Cyclic(code) \/ ReadsMissing(code)

\* every formula parses
AllFormulasParse ==
    \A i \in 1..Len(resolver_defs) :
        \/ IsNone(resolver_defs[i].formula)
        \/ resolver_defs[i].formula.s = <<>>
        \/ IsFunctionName(resolver_defs[i].formula.s)
        \/ ParseExec(NormalizeExpression(resolver_defs[i].formula.s)).ok

\* the metric and everything it needs is resolvable and evaluates to a value
StandsAlone(code) ==
    \A c \in {code} \cup AllNeeds(code) :
        /\ ~Unresolvable(c)
        /\ c \in DOMAIN resolver.computed => ~IsNone(resolver.computed[c])

\* C25: a metric on a dependency cycle, or reading a variable that nothing
\* provides, is absent from the resolver's result and from the rows emitted for
\* the record; no exception is raised because of it; and the metrics that need
\* no such metric are resolved.
C25_UnresolvableSilentlyDropped ==
    component = "resolve" =>
        /\ AllFormulasParse => pc # "raised"
        /\ ResolverEnded =>
             \A code \in MetricCodes :
                 /\ Unresolvable(code) =>
                       /\ code \notin DOMAIN resolver.computed
                       /\ \A r \in 1..Len(record_rows) : record_rows[r].metric_code # code
                 /\ StandsAlone(code) => code \in DOMAIN resolver.computed

\* what _evaluate_metrics returns for the definitions in each other order
ResultsOfOrders ==
    {EvaluateMetrics(order, resolver_base) :
        order \in Orders({resolver_defs[i] : i \in 1..Len(resolver_defs)})}

\* the dependencies are acyclic, no metric is named like a base fact, every
\* variable read is a base fact or a metric, and no order makes a formula
\* fail or resolve to None
OrderInsensitiveInput ==
    /\ \A code \in MetricCodes : ~Cyclic(code) /\ ~ReadsMissing(code)
    /\ MetricCodes \cap DOMAIN resolver_base = {}
    /\ \A result \in ResultsOfOrders :
          /\ ~result.raised
          /\ \A code \in DOMAIN result.computed : ~IsNone(result.computed[code])

\* C30: for such definitions the order of the configuration does not matter:
\* all N metrics are resolved within the N passes, and with the values every
\* other order of the same definitions gives.
C30_OrderIndependent ==
    (ResolverEnded /\ OrderInsensitiveInput) =>
        /\ DOMAIN resolver.computed = MetricCodes
        /\ pass_number <= MostPasses
        /\ \A result \in ResultsOfOrders : result.computed = resolver.computed

\* C30 witness: the chain in the order ratio, score, margin has returned with
\* margin 60, ratio 3/2 and score 5/2, as in every other order.
C30_Witness ==
    /\ ResolverEnded
    /\ OrderInsensitiveInput
    /\ Len(resolver_defs) = 3
    /\ resolver_defs[1].metric_code = "ratio"
    /\ resolver_defs[2].metric_code = "score"
    /\ resolver_defs[3].metric_code = "margin"
    /\ Cardinality(ResultsOfOrders) = 1
    /\ resolver.computed["margin"] = N(60)
    /\ resolver.computed["ratio"] = Num(Frac(3, 2))
    /\ resolver.computed["score"] = Num(Frac(5, 2))

-----------------------------------------------------------------------------
(* Properties of the rollup aggregation *)

\* the rows of results that went into rollup row k, in order
GroupRows(k) == [i \in 1..Len(rollup_trace[k].inputs) |-> results[rollup_trace[k].inputs[i]]]

\* their months
GroupMonths(k) == [i \in 1..Len(GroupRows(k)) |-> period_index[GroupRows(k)[i].period_key].month]

\* the non-null entries of a column that belong to the greatest month having one
LatestNonNull(months, column) ==
    {column[i] : i \in {j \in 1..Len(column) :
                            /\ ~IsNone(column[j])
                            /\ \A h \in 1..Len(column) :
                                  ~IsNone(column[h]) => months[h] <= months[j]}}

\* the method applied to the non-null entries of a column only (a set: two
\* rows of the greatest month may both be the latest); None without any
MethodOnNonNull(method, months, column) ==
    IF NonNull(column) = <<>> THEN {None}
    ELSE IF method \in {"avg", "mean"} THEN {SqlAvg(column)}
    ELSE IF method \in {"max", "min"}
    THEN {Num(Extremal(SelectSeq(column, LAMBDA x : ~IsNone(x)), method = "max"))}
    ELSE IF method = "latest" THEN LatestNonNull(months, column)
    ELSE {SqlSum(column)}

RollupMethod(k) == AggregationOf(rollup_trace[k].metric_code, rollup_trace[k].scope)

ValueColumn(k) == [i \in 1..Len(GroupRows(k)) |-> GroupRows(k)[i].value]

TargetColumn(k) == [i \in 1..Len(GroupRows(k)) |-> GroupRows(k)[i].target]

\* C26: every group has its rollup row, whose value is the metric's method
\* applied to the non-null values of the group's rows only: their sum, average,
\* maximum or minimum, for latest the value of the greatest month that has a
\* value, and None when the group has no value.
C26_RollupValueOverNonNull ==
    component = "calc" =>
        /\ Len(results) = n_monthly + Len(rollup_trace)
        /\ \A k \in 1..Len(rollup_trace) :
              results[n_monthly + k].value
                  \in MethodOnNonNull(RollupMethod(k), GroupMonths(k), ValueColumn(k))

\* C27: the target of every rollup row is the metric's method applied to the
\* non-null targets of the group's rows only, whatever the values of the
\* rows are.
C27_RollupTargetFromTargetsOnly ==
    component = "calc" =>
        \A k \in 1..Len(rollup_trace) :
            results[n_monthly + k].target
                \in MethodOnNonNull(RollupMethod(k), GroupMonths(k), TargetColumn(k))

====
